---- MODULE Spec2Model ----
(***************************************************************************)
(* State-machine model of the native telemetry pipeline of iso-demo        *)
(* (src/telemetrics.go): RunTelemetryPipeline, runModelTelemetry,          *)
(* computeADHD10 and their helpers, together with the host and the         *)
(* inference engine as the environment they talk to. Further               *)
(* specifications cover single parts on their own: the upload handler and  *)
(* the web server lifecycle of the host, ensureLocalMNIST, writeJSON, the  *)
(* MNIST loaders (src/mnist.go), benchmarkModelsOnDigits (src/models.go)   *)
(* and computeADHD of the web variant.                                     *)
(*                                                                         *)
(* Conventions.                                                            *)
(*  - A path or a file name is the sequence of its components:             *)
(*    "sub/b.json" is <<"sub", "b.json">>, the empty string is <<>>.       *)
(*  - A float64 that the code obtains by a division is an exact fraction   *)
(*    [n, d] in lowest terms; raw engine outputs are integers in units of  *)
(*    1e-7, rounded outputs are integers in units of 1e-6.                 *)
(*  - Go slices and maps are 0-based; Idx values keep the Go numbering,    *)
(*    sequences of the model are 1-based (element idx is at idx + 1).      *)
(*  - Wall-clock readings (elapsed_ms, started_at, the epoch in the report *)
(*    name) are not modelled.                                              *)
(***************************************************************************)
EXTENDS Integers, Sequences, FiniteSets, TLC

\* ---------------------------------------------------------------- bounds

\* Longest manifest the host serves.
MaxManifest == 2
\* Longest vector handed to driftMaxAndMAE, and the largest component.
MaxVecLen == 2
MaxVal == 3
\* Most requests the host answers, and the latest second of its clock.
MaxRequests == 2
MaxClock == 2
\* Most calls of StartWeb, StopWeb and WebStatus one goroutine makes.
MaxCalls == 2
\* Most calls of ensureLocalMNIST in a row.
MaxEnsureCalls == 2
\* firstIndexPerDigit: the length of the label sequences tried exhaustively
MaxLabels == 3
\* loadMNISTData: the number of images and labels in the training shard
MaxShardImages == 2
\* invocations of the pipeline in a row
MaxRuns == 2
\* the web variant's computeADHD: the length of the sample lists
MaxWebSamples == 2
\* benchmarkModelsOnDigits: the entries of the models directory
MaxBenchModels == 2

\* ------------------------------------------------------ program constants

\* for d := 0; d <= 9; d++
MaxDigit == 9
\* labelToOneHot: make([]float64, 10), the width of an output vector
OutLen == 10
\* roundSlice(xs, 6) on values held in units of 1e-7: one decimal is dropped
RoundUnit == 10

Digits == 0..MaxDigit

\* ------------------------------------------------------------ arithmetic

RECURSIVE GCD(_, _)
GCD(a, b) == IF b = 0 THEN a ELSE GCD(b, a % b)

\* The fraction n/d (n >= 0, d > 0) in lowest terms.
Frac(n, d) == LET g == GCD(n, d) IN [n |-> n \div g, d |-> d \div g]

FracZero == [n |-> 0, d |-> 1]

FracAdd(x, y) == Frac(x.n * y.d + y.n * x.d, x.d * y.d)

Abs(x) == IF x < 0 THEN -x ELSE x

RECURSIVE SeqSum(_)
SeqSum(s) == IF s = <<>> THEN 0 ELSE s[1] + SeqSum(Tail(s))

RECURSIVE SeqMax(_)
SeqMax(s) == IF s = <<>> THEN 0
             ELSE LET m == SeqMax(Tail(s)) IN IF s[1] > m THEN s[1] ELSE m

\* ------------------------------------------------------- path helpers

\* filepath.Clean of a relative path: a ".." removes the component before
\* it, and stays when there is none to remove.
RECURSIVE CleanFrom(_, _)
CleanFrom(rest, acc) ==
    IF rest = <<>> THEN acc
    ELSE IF Head(rest) = ".." /\ acc # <<>> /\ acc[Len(acc)] # ".."
         THEN CleanFrom(Tail(rest), SubSeq(acc, 1, Len(acc) - 1))
         ELSE CleanFrom(Tail(rest), Append(acc, Head(rest)))

JoinUnclean(dir, name) == dir \o name

\* filepath.Join(dir, name): the elements joined, then cleaned
Join(dir, name) == CleanFrom(dir \o name, <<>>)

\* filepath.Base(p) of a non-empty clean path
Base(p) == <<p[Len(p)]>>

ReverseBaseNames(paths) == [k \in 1..Len(paths) |-> Base(paths[Len(paths) + 1 - k])]

\* baseNames(paths)
baseNames(paths) == [k \in 1..Len(paths) |-> Base(paths[k])]

modelDirLocal == <<"public", "models_remote">>
mnistDirLocal == <<"public", "mnist">>
outDir == <<"public", "reports_local">>

\* The report's file name, telemetry_<machine_id>_<unix>.json.
reportName == <<"telemetry_mid_T.json">>
localPath == Join(outDir, reportName)
tmpPathInPlace == localPath

tmpPath == Join(outDir, <<"telemetry_mid_T.json.tmp">>)

\* A report left in reports_local by an earlier invocation.
oldReportPath == Join(outDir, <<"telemetry_mid_T0.json">>)

mnistFiles == << <<"train-images-idx3-ubyte">>, <<"train-labels-idx1-ubyte">>,
                 <<"t10k-images-idx3-ubyte">>, <<"t10k-labels-idx1-ubyte">> >>

\* ------------------------------------------------ small pure helpers

\* safeDiv(a, b) with a, b non-negative integers held in float64
SafeDivTimes100(a, b) == IF b = 0 THEN FracZero ELSE Frac(100 * a, b)

safeDiv(a, b) == IF b = 0 THEN FracZero ELSE Frac(a, b)

\* safeDiv(sumMAE, float64(n)) where sumMAE is itself a fraction
safeDivFrac(x, b) == IF b = 0 THEN FracZero ELSE Frac(x.n, x.d * b)

absInt(x) == IF x < 0 THEN -x ELSE x

labelBucketExact(pred, label) == IF pred = label THEN "correct" ELSE "wrong"

labelBucket(pred, label) ==
    IF pred = label THEN "correct"
    ELSE IF absInt(pred - label) = 1 THEN "off_by_1"
    ELSE "wrong"

ternary(cond, a, b) == IF cond THEN a ELSE b

\* argmax64(v): the first index (0-based) of the largest element
RECURSIVE argmaxFrom(_, _, _, _)
argmaxFrom(v, i, best, idx) ==
    IF i > Len(v) THEN idx
    ELSE IF v[i] > best THEN argmaxFrom(v, i + 1, v[i], i - 1)
    ELSE argmaxFrom(v, i + 1, best, idx)

argmax64(v) == argmaxFrom(v, 2, v[1], 0)

\* top1(out)
top1(out) == IF Len(out) = 0 THEN 0 ELSE SeqMax(out)

\* roundSlice(xs, 6): int64(v*scale + 0.5) truncates toward zero
roundOne(v) == IF v >= 0 THEN (v + 5) \div RoundUnit
               ELSE -((5 - v) \div RoundUnit)

roundSlice(xs) == [k \in 1..Len(xs) |-> roundOne(xs[k])]

driftSigned(a, b) ==
    IF Len(a) = 0 \/ Len(a) # Len(b) THEN <<0, FracZero>>
    ELSE LET diffs == [k \in 1..Len(a) |-> IF a[k] < b[k] THEN 0 ELSE a[k] - b[k]]
         IN <<SeqMax(diffs), Frac(SeqSum(diffs), Len(a))>>

\* driftMaxAndMAE(a, b) = <<maxAbs, mae>>
driftMaxAndMAE(a, b) ==
    IF Len(a) = 0 \/ Len(a) # Len(b) THEN <<0, FracZero>>
    ELSE LET diffs == [k \in 1..Len(a) |-> Abs(a[k] - b[k])]
         IN <<SeqMax(diffs), Frac(SeqSum(diffs), Len(a))>>

\* ------------------------------------------------------------ dataset

\* labelToOneHot(label)[0]
labelToOneHot(label) == [k \in 1..OutLen |-> IF k - 1 = label THEN 1 ELSE 0]

\* The class of a one-hot row: the first d with lbl[0][d] == 1.0, or -1.
RECURSIVE hotClass(_, _)
hotClass(row, k) ==
    IF k > Len(row) THEN -1
    ELSE IF row[k] = 1 THEN k - 1
    ELSE hotClass(row, k + 1)

RECURSIVE scanLabels(_, _, _)
scanLabels(labels, i, acc) ==
    IF i > Len(labels) THEN acc
    ELSE LET d == hotClass(labels[i], 1)
         IN IF d >= 0 /\ d \notin DOMAIN acc
            THEN scanLabels(labels, i + 1, acc @@ (d :> (i - 1)))
            ELSE scanLabels(labels, i + 1, acc)

EmptyMap == [x \in {} |-> 0]

firstIndexAfterHead(labels) == scanLabels(labels, 2, EmptyMap)

\* firstIndexPerDigit(labels)
firstIndexPerDigit(labels) == scanLabels(labels, 1, EmptyMap)

\* The first twenty labels of the MNIST training shard.
BaseLabels == <<5, 0, 4, 1, 9, 2, 1, 3, 1, 4, 3, 5, 3, 6, 1, 7, 2, 8, 6, 9>>

RECURSIVE Without(_, _)
Without(s, miss) ==
    IF s = <<>> THEN <<>>
    ELSE IF s[1] \in miss THEN Without(Tail(s), miss)
    ELSE <<s[1]>> \o Without(Tail(s), miss)

\* The digit classes a served dataset may lack.
MissingSets == {{}, {0}, {3, 7}}

\* How many images the image shards hold fewer than the label shards
\* (loadMNISTData does not compare the two counts).
ImageCuts == {0, 3, 19}

\* A loaded dataset: the digit each image depicts, and the one-hot labels.
Datasets ==
    { [images |-> SubSeq(Without(BaseLabels, ds[1]), 1,
                         Len(Without(BaseLabels, ds[1])) - ds[2]),
       labels |-> [k \in 1..Len(Without(BaseLabels, ds[1])) |->
                      labelToOneHot(Without(BaseLabels, ds[1])[k])]]
      : ds \in (MissingSets \X {0}) \cup ({{}} \X ImageCuts) }

\* ------------------------------------------------- the inference engine

\* The weights the host's model files hold: a.json is an accurate model,
\* b.json one that misreads odd digits and is undecided on multiples of 3.
WeightsOf(path) == IF Base(path) = <<"a.json">> THEN "sharp" ELSE "blurry"

\* The weights two calls of NewNetwork may leave in nnCPU and nnGPU (each
\* call initialises its network on its own).
FreshPairs == {<<"sharp", "blurry">>}

\* The class the network puts first for an image of digit `sample`.
PeakOf(w, sample) ==
    IF w = "sharp" \/ sample % 2 = 0 THEN sample ELSE (sample + 1) % OutLen

\* forward + extract_output on the CPU path: a softmax-like vector with
\* its mass on the peak class and on the class after it.
ForwardCPU(w, sample) ==
    LET p == PeakOf(w, sample)
        q == (p + 1) % OutLen
        tie == (w = "blurry" /\ sample % 3 = 0)
    IN [k \in 1..OutLen |->
          IF k - 1 = p THEN (IF tie THEN 5000002 ELSE 9000000)
          ELSE IF k - 1 = q THEN (IF tie THEN 4999998 ELSE 1000000)
          ELSE 0]

\* The GPU path computes the same network with a small numerical error.
ForwardGPU(w, sample) ==
    LET p == PeakOf(w, sample)
        q == (p + 1) % OutLen
        c == ForwardCPU(w, sample)
    IN [k \in 1..OutLen |->
          IF k - 1 = p THEN c[k] - 3
          ELSE IF k - 1 = q THEN c[k] + 3
          ELSE c[k]]

\* nn.Forward(sample); nn.ExtractOutput() on a handle with weights w whose
\* WebGPUNative flag is `gpu`.
Forward(w, sample, gpu) == IF gpu THEN ForwardGPU(w, sample) ELSE ForwardCPU(w, sample)

\* ------------------------------------------------- runModelTelemetry

\* SampleTiming{Digit, Idx, Pred, Top1Score, Output}
SampleTiming(d, idx, out) ==
    [digit |-> d, idx |-> idx, pred |-> argmax64(out), top1_score |-> top1(out),
     output |-> roundSlice(out)]

\* DriftMetrics{Digit, Idx, MaxAbs, MAE}
DriftEntry(d, idx, outCPU, outGPU) ==
    LET dm == driftMaxAndMAE(outCPU, outGPU)
    IN [digit |-> d, idx |-> idx, max_abs |-> dm[1], mae |-> dm[2]]

NoTimes == [cpu |-> <<>>, gpu |-> <<>>, drift |-> <<>>, panic |-> FALSE]

\* One pass of the body of `for d := 0; d <= 9; d++`, with the drift entry
\* left out when the two outputs are identical.
probeBodySparseDrift(st, d, idx, imgs, wCPU, wGPU, gpuFlag) ==
    IF idx >= Len(imgs) THEN [st EXCEPT !.panic = TRUE]
    ELSE LET sample == imgs[idx + 1]
             outCPU == Forward(wCPU, sample, FALSE)
             outGPU == Forward(wGPU, sample, gpuFlag)
         IN [cpu |-> Append(st.cpu, SampleTiming(d, idx, outCPU)),
             gpu |-> Append(st.gpu, SampleTiming(d, idx, outGPU)),
             drift |-> IF outCPU = outGPU THEN st.drift
                       ELSE Append(st.drift, DriftEntry(d, idx, outCPU, outGPU)),
             panic |-> FALSE]

\* One pass of the body of `for d := 0; d <= 9; d++` for a digit that has an
\* index: images[idx] panics when idx is out of range.
probeBody(st, d, idx, imgs, wCPU, wGPU, gpuFlag) ==
    IF idx >= Len(imgs) THEN [st EXCEPT !.panic = TRUE]
    ELSE LET sample == imgs[idx + 1]
             outCPU == Forward(wCPU, sample, FALSE)
             outGPU == Forward(wGPU, sample, gpuFlag)
         IN [cpu |-> Append(st.cpu, SampleTiming(d, idx, outCPU)),
             gpu |-> Append(st.gpu, SampleTiming(d, idx, outGPU)),
             drift |-> Append(st.drift, DriftEntry(d, idx, outCPU, outGPU)),
             panic |-> FALSE]

\* The per-digit loop of runModelTelemetry from digit d on.
RECURSIVE probeLoop(_, _, _, _, _, _, _)
probeLoop(st, d, fidx, imgs, wCPU, wGPU, gpuFlag) ==
    IF d > MaxDigit \/ st.panic THEN st
    ELSE IF d \notin DOMAIN fidx
         THEN probeLoop(st, d + 1, fidx, imgs, wCPU, wGPU, gpuFlag)
         ELSE probeLoop(probeBody(st, d, fidx[d], imgs, wCPU, wGPU, gpuFlag),
                        d + 1, fidx, imgs, wCPU, wGPU, gpuFlag)

\* ADHDBuckets{}
NoBuckets ==
    [cpu_correct |-> 0, cpu_wrong |-> 0, gpu_correct |-> 0, gpu_wrong |-> 0,
     cpu_off_by_1 |-> 0, gpu_off_by_1 |-> 0, agree |-> 0, disagree |-> 0]

\* ADHDScore{}
NoScore ==
    [top1_accuracy_cpu |-> FracZero, top1_accuracy_gpu |-> FracZero,
     cpu_vs_gpu_agree_count |-> 0, avg_drift_mae |-> FracZero,
     max_drift_max_abs |-> 0, buckets |-> NoBuckets, per_sample |-> <<>>]

\* The locals of computeADHD10 before its loop.
NoAcc ==
    [accCPU |-> 0, accGPU |-> 0, agreeCount |-> 0, sumMAE |-> FracZero,
     maxMaxAbs |-> 0, n |-> 0, buckets |-> NoBuckets, per |-> <<>>]

\* The loop body of computeADHD10 with off-by-one predictions left out of
\* the wrong counters.
adhdBodyExclusive(a, c, g, d) ==
    LET cCorrect == (c.pred = c.digit)
        gCorrect == (g.pred = g.digit)
        cOff == (absInt(c.pred - c.digit) = 1)
        gOff == (absInt(g.pred - g.digit) = 1)
        agree == (c.pred = g.pred)
        agreeCount == a.agreeCount + (IF agree THEN 1 ELSE 0)
        b == a.buckets
    IN [accCPU |-> a.accCPU + (IF cCorrect THEN 1 ELSE 0),
        accGPU |-> a.accGPU + (IF gCorrect THEN 1 ELSE 0),
        agreeCount |-> agreeCount,
        sumMAE |-> FracAdd(a.sumMAE, d.mae),
        maxMaxAbs |-> IF d.max_abs > a.maxMaxAbs THEN d.max_abs ELSE a.maxMaxAbs,
        n |-> a.n + 1,
        buckets |->
           [cpu_correct |-> b.cpu_correct + (IF cCorrect THEN 1 ELSE 0),
            cpu_wrong |-> b.cpu_wrong + (IF cCorrect \/ cOff THEN 0 ELSE 1),
            gpu_correct |-> b.gpu_correct + (IF gCorrect THEN 1 ELSE 0),
            gpu_wrong |-> b.gpu_wrong + (IF gCorrect \/ gOff THEN 0 ELSE 1),
            cpu_off_by_1 |-> b.cpu_off_by_1 + (IF cOff THEN 1 ELSE 0),
            gpu_off_by_1 |-> b.gpu_off_by_1 + (IF gOff THEN 1 ELSE 0),
            agree |-> agreeCount,
            disagree |-> b.disagree + (IF agree THEN 0 ELSE 1)],
        per |-> Append(a.per,
                   [digit |-> c.digit, idx |-> c.idx,
                    cpu_pred |-> c.pred, gpu_pred |-> g.pred,
                    cpu_bucket |-> labelBucket(c.pred, c.digit),
                    gpu_bucket |-> labelBucket(g.pred, g.digit),
                    agreement |-> ternary(agree, "agree", "disagree")])]

\* The loop body of computeADHD10 for c = m.CPU[i], g = m.GPU[i], d = m.Drift[i].
adhdBody(a, c, g, d) ==
    LET cCorrect == (c.pred = c.digit)
        gCorrect == (g.pred = g.digit)
        agree == (c.pred = g.pred)
        agreeCount == a.agreeCount + (IF agree THEN 1 ELSE 0)
        b == a.buckets
    IN [accCPU |-> a.accCPU + (IF cCorrect THEN 1 ELSE 0),
        accGPU |-> a.accGPU + (IF gCorrect THEN 1 ELSE 0),
        agreeCount |-> agreeCount,
        sumMAE |-> FracAdd(a.sumMAE, d.mae),
        maxMaxAbs |-> IF d.max_abs > a.maxMaxAbs THEN d.max_abs ELSE a.maxMaxAbs,
        n |-> a.n + 1,
        buckets |->
           [cpu_correct |-> b.cpu_correct + (IF cCorrect THEN 1 ELSE 0),
            cpu_wrong |-> b.cpu_wrong + (IF cCorrect THEN 0 ELSE 1),
            gpu_correct |-> b.gpu_correct + (IF gCorrect THEN 1 ELSE 0),
            gpu_wrong |-> b.gpu_wrong + (IF gCorrect THEN 0 ELSE 1),
            cpu_off_by_1 |-> b.cpu_off_by_1
                             + (IF absInt(c.pred - c.digit) = 1 THEN 1 ELSE 0),
            gpu_off_by_1 |-> b.gpu_off_by_1
                             + (IF absInt(g.pred - g.digit) = 1 THEN 1 ELSE 0),
            agree |-> agreeCount,
            disagree |-> b.disagree + (IF agree THEN 0 ELSE 1)],
        per |-> Append(a.per,
                   [digit |-> c.digit, idx |-> c.idx,
                    cpu_pred |-> c.pred, gpu_pred |-> g.pred,
                    cpu_bucket |-> labelBucket(c.pred, c.digit),
                    gpu_bucket |-> labelBucket(g.pred, g.digit),
                    agreement |-> ternary(agree, "agree", "disagree")])]

\* `for i := range m.CPU` of computeADHD10 from position i on.
RECURSIVE adhdLoop(_, _, _)
adhdLoop(m, i, a) ==
    IF i > Len(m.cpu) THEN a
    ELSE adhdLoop(m, i + 1, adhdBody(a, m.cpu[i], m.gpu[i], m.drift[i]))

computeADHD10OfTen(m) ==
    IF Len(m.cpu) = 0 \/ Len(m.gpu) = 0 \/ Len(m.drift) = 0 THEN NoScore
    ELSE LET a == adhdLoop(m, 1, NoAcc)
         IN [top1_accuracy_cpu |-> safeDiv(a.accCPU, MaxDigit + 1),
             top1_accuracy_gpu |-> safeDiv(a.accGPU, MaxDigit + 1),
             cpu_vs_gpu_agree_count |-> a.agreeCount,
             avg_drift_mae |-> safeDivFrac(a.sumMAE, MaxDigit + 1),
             max_drift_max_abs |-> a.maxMaxAbs,
             buckets |-> a.buckets,
             per_sample |-> a.per]

\* computeADHD10(m)
computeADHD10(m) ==
    IF Len(m.cpu) = 0 \/ Len(m.gpu) = 0 \/ Len(m.drift) = 0 THEN NoScore
    ELSE LET a == adhdLoop(m, 1, NoAcc)
         IN [top1_accuracy_cpu |-> safeDiv(a.accCPU, a.n),
             top1_accuracy_gpu |-> safeDiv(a.accGPU, a.n),
             cpu_vs_gpu_agree_count |-> a.agreeCount,
             avg_drift_mae |-> safeDivFrac(a.sumMAE, a.n),
             max_drift_max_abs |-> a.maxMaxAbs,
             buckets |-> a.buckets,
             per_sample |-> a.per]

\* m.CPU[i] is in range by construction of the loop; m.GPU[i] and m.Drift[i]
\* panic when those slices are shorter.
adhdPanics(m) ==
    /\ Len(m.cpu) # 0 /\ Len(m.gpu) # 0 /\ Len(m.drift) # 0
    /\ (Len(m.gpu) < Len(m.cpu) \/ Len(m.drift) < Len(m.cpu))

\* ------------------------------------------------------------ the host

FileNames == {<<>>, <<"a.json">>, <<"sub", "b.json">>}

ManifestEntries == [id : {"m"}, filename : FileNames]

\* The manifests a host may serve.
Manifests == UNION {[1..n -> ManifestEntries] : n \in 0..MaxManifest}

Sources == {"native", "wasm-bun", "wasm-ionic"}

GET(url) == [method |-> "GET", url |-> url, body |-> <<>>]
POST(url, name, content) ==
    [method |-> "POST", url |-> url, body |-> <<[name |-> name, file |-> content]>>]

manifestURL == <<"models", "manifest.json">>
uploadURL == <<"upload">>

\* What the local disk may hold when the pipeline is invoked.
InitialDisks ==
    { [f \in {Join(mnistDirLocal, mnistFiles[k]) : k \in {1, 3}}
             \cup {Join(modelDirLocal, <<"a.json">>)} |-> "stale"] }

\* The report an earlier invocation left in reports_local.
OldReport ==
    [complete |-> TRUE,
     body |-> [version |-> "1.2.0", source |-> "native", from_host |-> "host",
               models_used |-> <<>>, samples |-> <<>>, per_model |-> <<>>]]

\* ------------------------------------------------------------- state

VARIABLES
    pc,            \* where RunTelemetryPipeline stands
    err,           \* the error it returned ("" while running or on success)
    source,        \* the source argument
    manifest,      \* the decoded manifest
    dl,            \* position of the download loop in the manifest
    modelFiles,    \* local paths of the downloaded models
    disk,          \* files under public/models_remote and public/mnist
    reportsLocal,  \* files under public/reports_local
    httpLog,       \* the requests issued so far, in order
    images,        \* the loaded images (the digit each depicts)
    firstIdx,      \* SampleIndex
    mi,            \* position of the model loop in modelFiles
    cur,           \* locals of the running runModelTelemetry
    per,           \* per []ModelRun
    perIdx,        \* for each element of per, its position in modelFiles
    engineLog,     \* for each model started, how its load and rebuild went
    gpuLog,        \* init_gpu successes and cleanup_gpu calls, in order
    trace          \* the stages RunTelemetryPipeline has entered, in order

\* driftMaxAndMAE on its own
VARIABLES
    driftA,        \* argument a
    driftB,        \* argument b
    driftOut       \* what the call returned

\* the host's upload endpoint (src/webupload.go)
VARIABLES
    hostFiles,     \* the host's files, by path from its working directory
    hostClock,     \* time.Now().Unix() on the host
    hostLog        \* requests answered so far, with their responses

\* the host's server record (var ws webServer)
VARIABLES
    ws,            \* app, addr, dir, running
    mu,            \* ws.mu
    gpc,           \* where each calling goroutine stands
    gloc,          \* each calling goroutine's arguments, locals and result
    apps,          \* the fiber apps created so far
    live           \* the last lifecycle call that took effect

\* ensureLocalMNIST called repeatedly
VARIABLES
    fdisk,         \* files under public/mnist
    fcalls         \* the calls made so far: requests issued, result, files

\* writeJSON followed by the upload (src/models.go, src/telemetrics.go)
VARIABLES
    wpc,           \* where the save-and-push stage stands
    wfiles,        \* files under public/reports_local
    wstart,        \* wfiles when the stage was entered
    wbody,         \* the report passed to writeJSON
    wsent          \* the multipart POSTs issued

\* firstIndexPerDigit on its own
VARIABLES
    idxLabels,     \* argument labels (one-hot rows)
    idxOut         \* what the call returned

\* loadMNISTData on its own
VARIABLES
    ldFiles,       \* the shards in the directory, by position in mnistFiles
    ldOut          \* what the call returned

\* RunTelemetryPipeline invoked again and again against one host
VARIABLES
    rmodels,       \* files under public/models_remote
    rshards,       \* files under public/mnist, cell by cell
    rruns          \* how each invocation so far ended

\* computeADHD of the web variant on its own
VARIABLES
    wadCPU,        \* argument CPU
    wadGPU,        \* argument GPU
    wadOut         \* what the call returned

\* benchmarkModelsOnDigits on its own
VARIABLES
    bpc,           \* where the call stands
    bwithGpu,      \* argument withGpu
    bentries,      \* what os.ReadDir(modelDir) lists, in order
    bi,            \* position of the range loop in entries
    bactive,       \* entries whose network holds an initialised GPU context
    bdefers        \* the deferred calls of the function, last first

pipeVars == <<pc, err, source, manifest, dl, modelFiles, disk, reportsLocal, httpLog,
              images, firstIdx, mi, cur, per, perIdx, engineLog, gpuLog, trace>>
driftVars == <<driftA, driftB, driftOut>>
hostVars == <<hostFiles, hostClock, hostLog>>
webVars == <<ws, mu, gpc, gloc, apps, live>>
fetchVars == <<fdisk, fcalls>>

writeVars == <<wpc, wfiles, wstart, wbody, wsent>>

idxVars == <<idxLabels, idxOut>>

loadVars == <<ldFiles, ldOut>>

rerunVars == <<rmodels, rshards, rruns>>

wadVars == <<wadCPU, wadGPU, wadOut>>

benchVars == <<bpc, bwithGpu, bentries, bi, bactive, bdefers>>

\* the parts exercised by the specifications of single functions
auxVars == <<writeVars, idxVars, loadVars, rerunVars, wadVars, benchVars>>

\* what RunTelemetryPipeline does not touch
envVars == <<driftVars, hostVars, webVars, fetchVars, auxVars>>

vars == <<pipeVars, envVars>>

\* The zero value of the server record: no app, not running.
WsZero == [app |-> 0, addr |-> <<>>, dir |-> <<>>, running |-> FALSE]

\* No StartWeb has taken effect yet.
NeverStarted == [state |-> "none", app |-> 0, addr |-> <<>>]

\* An unlocked sync.RWMutex.
MuFree == [writer |-> 0, readers |-> {}]

\* driftMaxAndMAE not yet called.
NoDrift == [called |-> FALSE, maxAbs |-> 0, mae |-> FracZero]

\* The rest values of the parts a specification does not exercise.
DriftIdle == driftA = <<>> /\ driftB = <<>> /\ driftOut = NoDrift
HostIdle == hostFiles = EmptyMap /\ hostClock = 1 /\ hostLog = <<>>
WebIdle ==
    /\ ws = WsZero /\ mu = MuFree /\ gpc = <<>> /\ gloc = <<>>
    /\ apps = <<>> /\ live = NeverStarted
FetchIdle == fdisk = EmptyMap /\ fcalls = <<>>
WriteIdle ==
    /\ wpc = "off" /\ wfiles = EmptyMap /\ wstart = EmptyMap /\ wbody = ""
    /\ wsent = <<>>
NoIndex == [called |-> FALSE, m |-> EmptyMap]
IndexIdle == idxLabels = <<>> /\ idxOut = NoIndex
NoLoad == [called |-> FALSE, kind |-> "", images |-> <<>>, labels |-> <<>>]
LoadIdle == ldFiles = EmptyMap /\ ldOut = NoLoad
RerunIdle == rmodels = EmptyMap /\ rshards = EmptyMap /\ rruns = <<>>
NoWad == [called |-> FALSE, score |-> NoScore]
WadIdle == wadCPU = <<>> /\ wadGPU = <<>> /\ wadOut = NoWad
BenchIdle ==
    /\ bpc = "off" /\ bwithGpu = FALSE /\ bentries = <<>>
    /\ bi = 0 /\ bactive = {} /\ bdefers = <<>>
AuxIdle == WriteIdle /\ IndexIdle /\ LoadIdle /\ RerunIdle /\ WadIdle /\ BenchIdle
EnvIdle == DriftIdle /\ HostIdle /\ WebIdle /\ FetchIdle /\ AuxIdle

Idle == [wCPU |-> "", wGPU |-> "", gpuFlag |-> FALSE, gpuInitOK |-> FALSE,
         deferCleanup |-> FALSE, times |-> NoTimes]

Init ==
    /\ pc = "start"
    /\ err = ""
    /\ source \in Sources
    /\ manifest = <<>>
    /\ dl = 1
    /\ modelFiles = <<>>
    /\ disk \in InitialDisks
    /\ reportsLocal = (oldReportPath :> OldReport)
    /\ httpLog = <<>>
    /\ images = <<>>
    /\ firstIdx = EmptyMap
    /\ mi = 1
    /\ cur = Idle
    /\ per = <<>>
    /\ perIdx = <<>>
    /\ engineLog = <<>>
    /\ gpuLog = <<>>
    /\ trace = <<>>
    /\ EnvIdle

\* RunTelemetryPipeline is not running.
PipeIdle ==
    /\ pc = "off" /\ err = "" /\ source = "native" /\ manifest = <<>> /\ dl = 1
    /\ modelFiles = <<>> /\ disk = EmptyMap /\ reportsLocal = EmptyMap
    /\ httpLog = <<>> /\ images = <<>> /\ firstIdx = EmptyMap /\ mi = 1
    /\ cur = Idle /\ per = <<>> /\ perIdx = <<>> /\ engineLog = <<>>
    /\ gpuLog = <<>> /\ trace = <<>>

\* The pipeline, driftMaxAndMAE, the host and the fetcher together.
OldIdle == PipeIdle /\ DriftIdle /\ HostIdle /\ WebIdle /\ FetchIdle
oldVars == <<pipeVars, driftVars, hostVars, webVars, fetchVars>>

\* Everything but one of those parts, and its rest value.
writeOthers == <<oldVars, idxVars, loadVars, rerunVars, wadVars, benchVars>>
WriteOthersIdle == OldIdle /\ IndexIdle /\ LoadIdle /\ RerunIdle /\ WadIdle /\ BenchIdle
indexOthers == <<oldVars, writeVars, loadVars, rerunVars, wadVars, benchVars>>
IndexOthersIdle == OldIdle /\ WriteIdle /\ LoadIdle /\ RerunIdle /\ WadIdle /\ BenchIdle
loadOthers == <<oldVars, writeVars, idxVars, rerunVars, wadVars, benchVars>>
LoadOthersIdle == OldIdle /\ WriteIdle /\ IndexIdle /\ RerunIdle /\ WadIdle /\ BenchIdle
rerunOthers == <<oldVars, writeVars, idxVars, loadVars, wadVars, benchVars>>
RerunOthersIdle == OldIdle /\ WriteIdle /\ IndexIdle /\ LoadIdle /\ WadIdle /\ BenchIdle
wadOthers == <<oldVars, writeVars, idxVars, loadVars, rerunVars, benchVars>>
WadOthersIdle == OldIdle /\ WriteIdle /\ IndexIdle /\ LoadIdle /\ RerunIdle /\ BenchIdle
benchOthers == <<oldVars, writeVars, idxVars, loadVars, rerunVars, wadVars>>
BenchOthersIdle == OldIdle /\ WriteIdle /\ IndexIdle /\ LoadIdle /\ RerunIdle /\ WadIdle

\* `return "", err`
Fail(e) == pc' = "failed" /\ err' = e

\* f with path p holding content c
Put(f, p, c) == [x \in (DOMAIN f) \cup {p} |-> IF x = p THEN c ELSE f[x]]

\* f without path p
Remove(f, p) == [x \in (DOMAIN f) \ {p} |-> f[x]]

\* ------------------------------------ RunTelemetryPipeline, stage 1

\* os.MkdirAll(modelDirLocal) fails.
MkdirModelsFails ==
    /\ pc = "start"
    /\ Fail("mkdir")
    /\ UNCHANGED <<source, manifest, dl, modelFiles, disk, reportsLocal, httpLog,
                   images, firstIdx, mi, cur, per, perIdx, engineLog, gpuLog>>
    /\ UNCHANGED <<trace, envVars>>

\* fetchManifest returns an error: transport error, non-200, undecodable JSON.
FetchManifestFails ==
    /\ pc = "start"
    /\ httpLog' = Append(httpLog, GET(manifestURL))
    /\ Fail("fetch manifest")
    /\ UNCHANGED <<source, manifest, dl, modelFiles, disk, reportsLocal,
                   images, firstIdx, mi, cur, per, perIdx, engineLog, gpuLog>>
    /\ trace' = trace \o <<"fetch_manifest">>
    /\ UNCHANGED envVars

AcceptAnyManifest(m) == ""

\* `if len(manifest) == 0 { return "", fmt.Errorf("manifest empty ...") }`
manifestVerdict(m) == IF Len(m) = 0 THEN "manifest empty" ELSE ""

\* fetchManifest succeeds with manifest m.
FetchManifest(m) ==
    /\ pc = "start"
    /\ httpLog' = Append(httpLog, GET(manifestURL))
    /\ manifest' = m
    /\ IF manifestVerdict(m) # ""
       THEN Fail(manifestVerdict(m))
       ELSE pc' = "download" /\ err' = err
    /\ UNCHANGED <<source, dl, modelFiles, disk, reportsLocal,
                   images, firstIdx, mi, cur, per, perIdx, engineLog, gpuLog>>
    /\ trace' = trace \o <<"fetch_manifest">>
    /\ UNCHANGED envVars

\* `if m.Filename == "" { continue }`
skipEntry(fn) == fn = <<>>

\* An entry of the manifest with an empty filename is passed over.
DownloadSkip ==
    /\ pc = "download" /\ dl <= Len(manifest)
    /\ skipEntry(manifest[dl].filename)
    /\ dl' = dl + 1
    /\ UNCHANGED <<pc, err, source, manifest, modelFiles, disk, reportsLocal, httpLog,
                   images, firstIdx, mi, cur, per, perIdx, engineLog, gpuLog>>
    /\ UNCHANGED <<trace, envVars>>

DownloadOKKeepsPresent ==
    /\ pc = "download" /\ dl <= Len(manifest)
    /\ ~skipEntry(manifest[dl].filename)
    /\ LET fn == manifest[dl].filename
           dst == Join(modelDirLocal, fn)
       IN /\ httpLog' = IF dst \in DOMAIN disk THEN httpLog
                        ELSE Append(httpLog, GET(<<"models">> \o fn))
          /\ disk' = IF dst \in DOMAIN disk THEN disk ELSE Put(disk, dst, "served")
          /\ modelFiles' = Append(modelFiles, dst)
    /\ dl' = dl + 1
    /\ UNCHANGED <<pc, err, source, manifest, reportsLocal,
                   images, firstIdx, mi, cur, per, perIdx, engineLog, gpuLog>>
    /\ trace' = trace \o <<"download_model">>
    /\ UNCHANGED envVars

\* httpDownload of the entry's file succeeds: the destination is created
\* (truncated when present) and filled.
DownloadOK ==
    /\ pc = "download" /\ dl <= Len(manifest)
    /\ ~skipEntry(manifest[dl].filename)
    /\ LET fn == manifest[dl].filename
           dst == Join(modelDirLocal, fn)
       IN /\ httpLog' = Append(httpLog, GET(<<"models">> \o fn))
          /\ disk' = Put(disk, dst, "served")
          /\ modelFiles' = Append(modelFiles, dst)
    /\ dl' = dl + 1
    /\ UNCHANGED <<pc, err, source, manifest, reportsLocal,
                   images, firstIdx, mi, cur, per, perIdx, engineLog, gpuLog>>
    /\ trace' = trace \o <<"download_model">>
    /\ UNCHANGED envVars

\* httpDownload fails: before the file is touched ("http": transport error,
\* non-200, MkdirAll or Create failing), or while copying the body into the
\* created file ("copy").
DownloadFails(how) ==
    /\ pc = "download" /\ dl <= Len(manifest)
    /\ ~skipEntry(manifest[dl].filename)
    /\ LET fn == manifest[dl].filename
           dst == Join(modelDirLocal, fn)
       IN /\ httpLog' = Append(httpLog, GET(<<"models">> \o fn))
          /\ disk' = IF how = "copy" THEN Put(disk, dst, "partial") ELSE disk
    /\ Fail("download")
    /\ UNCHANGED <<source, manifest, dl, modelFiles, reportsLocal,
                   images, firstIdx, mi, cur, per, perIdx, engineLog, gpuLog>>
    /\ trace' = trace \o <<"download_model">>
    /\ UNCHANGED envVars

\* ------------------------------------ stages 2 and 2.5: ensureLocalMNIST

ShardPath(k) == Join(mnistDirLocal, mnistFiles[k])

AllShards(f) == <<1, 2, 3, 4>>

\* The shards os.Stat does not find, in the order of mnistFiles.
missingShards(f) == SelectSeq(<<1, 2, 3, 4>>, LAMBDA k : ShardPath(k) \notin DOMAIN f)

ShardGets(miss, n) == [j \in 1..n |-> GET(<<"mnist">> \o mnistFiles[miss[j]])]

\* f after the first n shards of miss were downloaded in full
WithShards(f, miss, n) ==
    [x \in (DOMAIN f) \cup {ShardPath(miss[j]) : j \in 1..n} |->
        IF x \in {ShardPath(miss[j]) : j \in 1..n} THEN "served" ELSE f[x]]

EnsureMNISTProbeLast ==
    /\ pc = "download" /\ dl > Len(manifest)
    /\ LET miss == missingShards(disk)
       IN /\ httpLog' = httpLog \o ShardGets(miss, Len(miss))
          /\ disk' = WithShards(disk, miss, Len(miss))
    /\ pc' = "dataset"
    /\ UNCHANGED <<err, source, manifest, dl, modelFiles, reportsLocal,
                   images, firstIdx, mi, cur, per, perIdx, engineLog, gpuLog>>
    /\ trace' = trace \o <<"ensure_mnist", "probe_system">>
    /\ UNCHANGED envVars

\* Collect and hashSystemInfo, then ensureLocalMNIST: every absent shard is
\* downloaded, in order.
EnsureMNIST ==
    /\ pc = "download" /\ dl > Len(manifest)
    /\ LET miss == missingShards(disk)
       IN /\ httpLog' = httpLog \o ShardGets(miss, Len(miss))
          /\ disk' = WithShards(disk, miss, Len(miss))
    /\ pc' = "dataset"
    /\ UNCHANGED <<err, source, manifest, dl, modelFiles, reportsLocal,
                   images, firstIdx, mi, cur, per, perIdx, engineLog, gpuLog>>
    /\ trace' = trace \o <<"probe_system", "ensure_mnist">>
    /\ UNCHANGED envVars

\* ensureLocalMNIST fails in os.MkdirAll, before any shard is looked at.
EnsureMNISTMkdirFails ==
    /\ pc = "download" /\ dl > Len(manifest)
    /\ Fail("ensure mnist")
    /\ UNCHANGED <<source, manifest, dl, modelFiles, disk, reportsLocal, httpLog,
                   images, firstIdx, mi, cur, per, perIdx, engineLog, gpuLog>>
    /\ trace' = trace \o <<"probe_system", "ensure_mnist">>
    /\ UNCHANGED envVars

\* ensureLocalMNIST fails at the k-th absent shard: in the request or before
\* the file is created ("http"), or while the body is copied ("copy").
EnsureMNISTFails(k, how) ==
    /\ pc = "download" /\ dl > Len(manifest)
    /\ LET miss == missingShards(disk)
       IN /\ k \in 1..Len(miss)
          /\ httpLog' = httpLog \o ShardGets(miss, k)
          /\ disk' = IF how = "copy"
                     THEN Put(WithShards(disk, miss, k - 1), ShardPath(miss[k]), "partial")
                     ELSE WithShards(disk, miss, k - 1)
    /\ Fail("ensure mnist")
    /\ UNCHANGED <<source, manifest, dl, modelFiles, reportsLocal,
                   images, firstIdx, mi, cur, per, perIdx, engineLog, gpuLog>>
    /\ trace' = trace \o <<"probe_system", "ensure_mnist">>
    /\ UNCHANGED envVars

\* ------------------------------------ stage 3: the samples

LoadDatasetFailsIgnored ==
    /\ pc = "dataset"
    /\ err' = "load mnist"
    /\ images' = <<>>
    /\ firstIdx' = EmptyMap
    /\ mi' = 1
    /\ pc' = "loop"
    /\ UNCHANGED <<source, manifest, dl, modelFiles, disk, reportsLocal, httpLog,
                   cur, per, perIdx, engineLog, gpuLog>>
    /\ trace' = trace \o <<"load_dataset">>
    /\ UNCHANGED envVars

\* loadMNISTData returns an error.
LoadDatasetFails ==
    /\ pc = "dataset"
    /\ Fail("load mnist")
    /\ UNCHANGED <<source, manifest, dl, modelFiles, disk, reportsLocal, httpLog,
                   images, firstIdx, mi, cur, per, perIdx, engineLog, gpuLog>>
    /\ trace' = trace \o <<"load_dataset">>
    /\ UNCHANGED envVars

\* loadMNISTData returns dataset ds; firstIdx is built from its labels.
LoadDataset(ds) ==
    /\ pc = "dataset"
    /\ images' = ds.images
    /\ firstIdx' = firstIndexPerDigit(ds.labels)
    /\ mi' = 1
    /\ pc' = "loop"
    /\ UNCHANGED <<err, source, manifest, dl, modelFiles, disk, reportsLocal, httpLog,
                   cur, per, perIdx, engineLog, gpuLog>>
    /\ trace' = trace \o <<"load_dataset">>
    /\ UNCHANGED envVars

\* ------------------------------------ stage 4: the model loop

InLoop == pc = "loop" /\ mi <= Len(modelFiles)

Logged(ok) == Append(engineLog, [i |-> mi, ok |-> ok])

\* runModelTelemetry returns an error (kind "load": the file does not load;
\* "notf32": it is not a float32 network); the caller prints it and continues.
ModelLoadFails(kind) ==
    /\ InLoop
    /\ kind \in {"load", "notf32"}
    /\ engineLog' = Logged(FALSE)
    /\ mi' = mi + 1
    /\ UNCHANGED <<pc, err, source, manifest, dl, modelFiles, disk, reportsLocal,
                   httpLog, images, firstIdx, cur, per, perIdx, gpuLog>>
    /\ trace' = trace \o <<"run_model">>
    /\ UNCHANGED envVars

\* paragon.NewNetwork fails; its error is discarded and the nil network is
\* dereferenced by the next call.
ModelRebuildPanics ==
    /\ InLoop
    /\ engineLog' = Logged(FALSE)
    /\ pc' = "panic"
    /\ UNCHANGED <<err, source, manifest, dl, modelFiles, disk, reportsLocal,
                   httpLog, images, firstIdx, mi, cur, per, perIdx, gpuLog>>
    /\ trace' = trace \o <<"run_model">>
    /\ UNCHANGED envVars

\* MarshalJSONModel or UnmarshalJSONModel fails; the error is discarded and
\* both networks keep the weights NewNetwork gave them.
ModelImportFails(fresh) ==
    /\ InLoop
    /\ engineLog' = Logged(FALSE)
    /\ cur' = [Idle EXCEPT !.wCPU = fresh[1], !.wGPU = fresh[2], !.gpuFlag = TRUE]
    /\ pc' = "gpuinit"
    /\ UNCHANGED <<err, source, manifest, dl, modelFiles, disk, reportsLocal,
                   httpLog, images, firstIdx, mi, per, perIdx, gpuLog>>
    /\ trace' = trace \o <<"run_model">>
    /\ UNCHANGED envVars

\* The file loads as a float32 network; nnCPU and nnGPU are rebuilt from its
\* state and nnGPU.WebGPUNative is set.
ModelLoads ==
    /\ InLoop
    /\ engineLog' = Logged(TRUE)
    /\ cur' = [Idle EXCEPT !.wCPU = WeightsOf(modelFiles[mi]),
                           !.wGPU = WeightsOf(modelFiles[mi]), !.gpuFlag = TRUE]
    /\ pc' = "gpuinit"
    /\ UNCHANGED <<err, source, manifest, dl, modelFiles, disk, reportsLocal,
                   httpLog, images, firstIdx, mi, per, perIdx, gpuLog>>
    /\ trace' = trace \o <<"run_model">>
    /\ UNCHANGED envVars

\* InitializeOptimizedGPU fails: the flag falls back to CPU.
GPUInitFails ==
    /\ pc = "gpuinit"
    /\ cur' = [cur EXCEPT !.gpuInitOK = FALSE, !.gpuFlag = FALSE]
    /\ pc' = "probe"
    /\ UNCHANGED <<err, source, manifest, dl, modelFiles, disk, reportsLocal,
                   httpLog, images, firstIdx, mi, per, perIdx, engineLog, gpuLog>>
    /\ UNCHANGED <<trace, envVars>>

\* InitializeOptimizedGPU succeeds: warm-up on the digit-0 sample when there
\* is one (images[idx] panics when out of range), then the cleanup is deferred.
GPUInitOK ==
    /\ pc = "gpuinit"
    /\ gpuLog' = Append(gpuLog, [ev |-> "init", i |-> mi])
    /\ IF 0 \in DOMAIN firstIdx /\ firstIdx[0] >= Len(images)
       THEN /\ pc' = "panic"
            /\ cur' = [cur EXCEPT !.gpuInitOK = TRUE]
       ELSE /\ pc' = "probe"
            /\ cur' = [cur EXCEPT !.gpuInitOK = TRUE, !.deferCleanup = TRUE]
    /\ UNCHANGED <<err, source, manifest, dl, modelFiles, disk, reportsLocal,
                   httpLog, images, firstIdx, mi, per, perIdx, engineLog>>
    /\ UNCHANGED <<trace, envVars>>

\* The deferred nnGPU.CleanupOptimizedGPU(), when one was registered.
AfterDefer == IF cur.deferCleanup
              THEN Append(gpuLog, [ev |-> "cleanup", i |-> mi])
              ELSE gpuLog

\* The per-digit loop; a panic in it unwinds through the deferred cleanup.
Probe ==
    /\ pc = "probe"
    /\ LET st == probeLoop(NoTimes, 0, firstIdx, images, cur.wCPU, cur.wGPU, cur.gpuFlag)
       IN /\ cur' = [cur EXCEPT !.times = st]
          /\ IF st.panic
             THEN pc' = "panic" /\ gpuLog' = AfterDefer
             ELSE pc' = "ret" /\ gpuLog' = gpuLog
    /\ UNCHANGED <<err, source, manifest, dl, modelFiles, disk, reportsLocal,
                   httpLog, images, firstIdx, mi, per, perIdx, engineLog>>
    /\ UNCHANGED <<trace, envVars>>

\* The ModelRun runModelTelemetry is about to return.
Returned ==
    [model_file |-> Base(modelFiles[mi]),
     webgpu_init_ok |-> cur.gpuInitOK,
     cpu |-> cur.times.cpu, gpu |-> cur.times.gpu, drift |-> cur.times.drift,
     adhd10 |-> NoScore]

ReturnModelNoCleanup ==
    /\ pc = "ret"
    /\ per' = Append(per, [Returned EXCEPT !.adhd10 = computeADHD10(Returned)])
    /\ perIdx' = Append(perIdx, mi)
    /\ mi' = mi + 1
    /\ cur' = Idle
    /\ pc' = "loop"
    /\ UNCHANGED <<err, source, manifest, dl, modelFiles, disk, reportsLocal,
                   httpLog, images, firstIdx, engineLog, gpuLog>>
    /\ UNCHANGED <<trace, envVars>>

\* runModelTelemetry returns (its deferred call runs); the caller computes
\* ADHD10 and appends the run.
ReturnModel ==
    /\ pc = "ret"
    /\ gpuLog' = AfterDefer
    /\ IF adhdPanics(Returned)
       THEN /\ pc' = "panic"
            /\ UNCHANGED <<per, perIdx, mi, cur>>
       ELSE /\ per' = Append(per, [Returned EXCEPT !.adhd10 = computeADHD10(Returned)])
            /\ perIdx' = Append(perIdx, mi)
            /\ mi' = mi + 1
            /\ cur' = Idle
            /\ pc' = "loop"
    /\ UNCHANGED <<err, source, manifest, dl, modelFiles, disk, reportsLocal,
                   httpLog, images, firstIdx, engineLog>>
    /\ UNCHANGED <<trace, envVars>>

\* ------------------------------------ stages 5 and 6: save and push

LoopDone == pc = "loop" /\ mi > Len(modelFiles)

\* digits: 0..9 in order
SamplesList == [k \in 1..(MaxDigit + 1) |-> k - 1]

\* The TelemetryReport composed after the loop.
Report ==
    [version |-> "1.2.0", source |-> source, from_host |-> "host",
     models_used |-> baseNames(modelFiles), samples |-> SamplesList,
     per_model |-> per]

\* The report is composed and saved: writeJSON creates <path>.tmp, encodes
\* into it and renames it onto the target.
WriteLocal ==
    /\ LoopDone
    /\ reportsLocal' = Put(Remove(reportsLocal, tmpPath), localPath,
                           [complete |-> TRUE, body |-> Report])
    /\ pc' = "upload"
    /\ UNCHANGED <<err, source, manifest, dl, modelFiles, disk, httpLog,
                   images, firstIdx, mi, cur, per, perIdx, engineLog, gpuLog>>
    /\ trace' = trace \o <<"write_local">>
    /\ UNCHANGED envVars

\* Saving fails: os.MkdirAll ("mkdir"), os.Create of the temporary file
\* ("create"), the encoder ("encode") or os.Rename ("rename").
WriteLocalFails(how) ==
    /\ LoopDone
    /\ reportsLocal' =
         CASE how = "encode" -> Put(reportsLocal, tmpPath,
                                    [complete |-> FALSE, body |-> Report])
           [] how = "rename" -> Put(reportsLocal, tmpPath,
                                    [complete |-> TRUE, body |-> Report])
           [] OTHER -> reportsLocal
    /\ Fail("save")
    /\ UNCHANGED <<source, manifest, dl, modelFiles, disk, httpLog,
                   images, firstIdx, mi, cur, per, perIdx, engineLog, gpuLog>>
    /\ trace' = trace \o <<"write_local">>
    /\ UNCHANGED envVars

\* uploadFile succeeds: the file is read back and POSTed, the host answers 200.
Upload ==
    /\ pc = "upload"
    /\ httpLog' = Append(httpLog, POST(uploadURL, reportName, reportsLocal[localPath]))
    /\ pc' = "done"
    /\ UNCHANGED <<err, source, manifest, dl, modelFiles, disk, reportsLocal,
                   images, firstIdx, mi, cur, per, perIdx, engineLog, gpuLog>>
    /\ trace' = trace \o <<"upload">>
    /\ UNCHANGED envVars

UploadFailsAndDeletes(how) ==
    /\ pc = "upload"
    /\ httpLog' = IF how = "open" THEN httpLog
                  ELSE Append(httpLog, POST(uploadURL, reportName, reportsLocal[localPath]))
    /\ reportsLocal' = Remove(reportsLocal, localPath)
    /\ Fail("push report")
    /\ UNCHANGED <<source, manifest, dl, modelFiles, disk,
                   images, firstIdx, mi, cur, per, perIdx, engineLog, gpuLog>>
    /\ trace' = trace \o <<"upload">>
    /\ UNCHANGED envVars

\* uploadFile fails: the file cannot be opened ("open", nothing is sent), the
\* request fails in transport ("transport") or the host answers non-200
\* ("status").
UploadFails(how) ==
    /\ pc = "upload"
    /\ httpLog' = IF how = "open" THEN httpLog
                  ELSE Append(httpLog, POST(uploadURL, reportName, reportsLocal[localPath]))
    /\ Fail("push report")
    /\ UNCHANGED <<source, manifest, dl, modelFiles, disk, reportsLocal,
                   images, firstIdx, mi, cur, per, perIdx, engineLog, gpuLog>>
    /\ trace' = trace \o <<"upload">>
    /\ UNCHANGED envVars

\* ------------------------------------------------------ specification

Next ==
    \/ MkdirModelsFails
    \/ FetchManifestFails
    \/ \E m \in Manifests : FetchManifest(m)
    \/ DownloadSkip
    \/ DownloadOK
    \/ \E how \in {"http", "copy"} : DownloadFails(how)
    \/ EnsureMNIST
    \/ EnsureMNISTMkdirFails
    \/ \E k \in 1..4, how \in {"http", "copy"} : EnsureMNISTFails(k, how)
    \/ LoadDatasetFails
    \/ \E ds \in Datasets : LoadDataset(ds)
    \/ \E kind \in {"load", "notf32"} : ModelLoadFails(kind)
    \/ ModelRebuildPanics
    \/ \E fresh \in FreshPairs : ModelImportFails(fresh)
    \/ ModelLoads
    \/ GPUInitFails
    \/ GPUInitOK
    \/ Probe
    \/ ReturnModel
    \/ WriteLocal
    \/ \E how \in {"mkdir", "create", "encode", "rename"} : WriteLocalFails(how)
    \/ Upload
    \/ \E how \in {"open", "transport", "status"} : UploadFails(how)

Spec == Init /\ [][Next]_vars

\* ------------------------------------------ driftMaxAndMAE on its own

\* The vectors of length at most MaxVecLen over 0..MaxVal.
Vectors == UNION {[1..n -> 0..MaxVal] : n \in 0..MaxVecLen}

DriftInit ==
    /\ driftA \in Vectors /\ driftB \in Vectors
    /\ driftOut = NoDrift
    /\ PipeIdle /\ HostIdle /\ WebIdle /\ FetchIdle /\ AuxIdle

\* maxAbs, mae := driftMaxAndMAE(a, b)
DriftCall ==
    /\ ~driftOut.called
    /\ LET r == driftMaxAndMAE(driftA, driftB)
       IN driftOut' = [called |-> TRUE, maxAbs |-> r[1], mae |-> r[2]]
    /\ UNCHANGED <<driftA, driftB, pipeVars, hostVars, webVars, fetchVars, auxVars>>

DriftNext == DriftCall

SpecDrift == DriftInit /\ [][DriftNext]_vars

\* --------------------------------------- the host: /upload and /reports

\* RegisterUpload(app, baseDir) as StartWeb calls it with the default dir
baseDir == <<"public">>
reportsDir == Join(baseDir, <<"reports">>)

\* The directories that exist on the host once os.MkdirAll(reportsDir) passed.
HostDirs == {<<>>, baseDir, reportsDir}

\* The `name` form values a client sends (<<>>: absent or empty), the client
\* file names of the `file` part, and the bodies.
NameFields == {<<>>, <<"t.json">>, <<"1_r.json">>, <<"sub", "t.json">>,
               <<"..", "..", "t.json">>}
ClientNames == {"r.json", "s.json"}
Bodies == {"B1", "B2"}

\* The multipart requests clients send: with a `file` part ...
Uploads ==
    {[hasFile |-> TRUE, name |-> <<>>, client |-> "r.json", bytes |-> b] : b \in Bodies}
    \cup {[hasFile |-> TRUE, name |-> <<>>, client |-> "s.json", bytes |-> "B1"]}
    \cup {[hasFile |-> TRUE, name |-> <<"t.json">>, client |-> "r.json", bytes |-> b] :
             b \in Bodies}
    \cup {[hasFile |-> TRUE, name |-> n, client |-> "r.json", bytes |-> "B2"] :
             n \in NameFields \ {<<>>, <<"t.json">>}}
\* ... and without one.
NoFileRequests ==
    {[hasFile |-> FALSE, name |-> n, client |-> "", bytes |-> ""] :
       n \in {<<>>, <<"t.json">>}}

\* fmt.Sprintf("%d_%s", time.Now().Unix(), fh.Filename)
stampedName(clock, client) == <<ToString(clock) \o "_" \o client>>

\* `name := c.FormValue("name"); if name == "" { name = <unix>_<filename> }`
effectiveName(field, clock, client) ==
    IF field = <<>> THEN stampedName(clock, client) ELSE field

\* `dst := filepath.Join(reportsDir, name)`
uploadDst(u, clock) == Join(reportsDir, effectiveName(u.name, clock, u.client))

\* c.SaveFile can create dst: its directory exists and dst is not one.
CanCreate(dst) ==
    /\ dst # <<>>
    /\ SubSeq(dst, 1, Len(dst) - 1) \in HostDirs
    /\ dst \notin HostDirs

NoResp == [status |-> 0, saved |-> FALSE, path |-> <<>>, public |-> <<>>,
           error |-> "", body |-> ""]

\* The responses of the handler.
RespSaved(u, clock) ==
    [NoResp EXCEPT !.status = 200, !.saved = TRUE, !.path = uploadDst(u, clock),
                   !.public = <<"reports">> \o effectiveName(u.name, clock, u.client)]
RespError(code, msg) == [NoResp EXCEPT !.status = code, !.error = msg]

\* The request path as the server routes it: ".." steps are resolved and
\* never climb above the root.
RECURSIVE NormURL(_, _)
NormURL(rest, acc) ==
    IF rest = <<>> THEN acc
    ELSE IF Head(rest) = ".."
         THEN NormURL(Tail(rest), IF acc = <<>> THEN acc
                                  ELSE SubSeq(acc, 1, Len(acc) - 1))
         ELSE NormURL(Tail(rest), Append(acc, Head(rest)))

\* app.Static("/reports", reportsDir) and app.Static("/", ws.dir): the file
\* a GET of url is answered from.
staticFile(url) ==
    LET n == NormURL(url, <<>>)
    IN IF n # <<>> /\ n[1] = "reports"
       THEN Join(reportsDir, Tail(n))
       ELSE Join(baseDir, n)

Serve(files, url) ==
    IF staticFile(url) \in DOMAIN files
    THEN [NoResp EXCEPT !.status = 200, !.body = files[staticFile(url)]]
    ELSE [NoResp EXCEPT !.status = 404]

HostInit ==
    /\ hostFiles = EmptyMap
    /\ hostClock = 1
    /\ hostLog = <<>>
    /\ PipeIdle /\ DriftIdle /\ WebIdle /\ FetchIdle /\ AuxIdle

HostBusy == Len(hostLog) < MaxRequests

\* What the log keeps of an upload: the request, the second it arrived, the
\* destination, the response, and whether the host's files changed.
UploadEntry(u, resp, wrote) ==
    [kind |-> "upload", url |-> <<"upload">>, hasFile |-> u.hasFile,
     name |-> u.name, client |-> u.client, bytes |-> u.bytes,
     at |-> hostClock, dst |-> uploadDst(u, hostClock), resp |-> resp,
     wrote |-> wrote]

HostRest == UNCHANGED <<hostClock, pipeVars, driftVars, webVars, fetchVars, auxVars>>

\* os.MkdirAll(reportsDir) fails: 500, whatever the request carries.
UploadMkdirFails(u) ==
    /\ HostBusy
    /\ UNCHANGED hostFiles
    /\ hostLog' = Append(hostLog, UploadEntry(u,
                          RespError(500, "failed to create reports dir"), FALSE))
    /\ HostRest

UploadMissingFileStores(u) ==
    /\ HostBusy
    /\ ~u.hasFile
    /\ hostFiles' = Put(hostFiles, uploadDst(u, hostClock), u.bytes)
    /\ hostLog' = Append(hostLog, UploadEntry(u, RespError(400, "missing file field"),
                                              hostFiles' # hostFiles))
    /\ HostRest

\* c.FormFile("file") fails: 400.
UploadMissingFile(u) ==
    /\ HostBusy
    /\ ~u.hasFile
    /\ UNCHANGED hostFiles
    /\ hostLog' = Append(hostLog, UploadEntry(u, RespError(400, "missing file field"),
                                              FALSE))
    /\ HostRest

\* c.SaveFile fails: dst cannot be created ("create", also when the
\* environment refuses it), or the copy breaks off ("copy"): 500.
UploadSaveFails(u, how) ==
    /\ HostBusy
    /\ how = "copy" => CanCreate(uploadDst(u, hostClock))
    /\ u.hasFile
    /\ hostFiles' = IF how = "copy"
                    THEN Put(hostFiles, uploadDst(u, hostClock), "partial")
                    ELSE hostFiles
    /\ hostLog' = Append(hostLog, UploadEntry(u, RespError(500, "save"),
                                              hostFiles' # hostFiles))
    /\ HostRest

\* The handler saves the file and answers 200 {saved, path, public}.
UploadSaved(u) ==
    /\ HostBusy
    /\ u.hasFile
    /\ CanCreate(uploadDst(u, hostClock))
    /\ hostFiles' = Put(hostFiles, uploadDst(u, hostClock), u.bytes)
    /\ hostLog' = Append(hostLog, UploadEntry(u, RespSaved(u, hostClock),
                                              hostFiles' # hostFiles))
    /\ HostRest

\* The URLs clients ask for.
GetURLs == {<<"reports">> \o n : n \in NameFields \ {<<>>}}

\* GET of a static URL.
HostGet(url) ==
    /\ HostBusy
    /\ hostLog' = Append(hostLog,
          [kind |-> "get", url |-> url, hasFile |-> FALSE, name |-> <<>>,
           client |-> "", bytes |-> "", at |-> hostClock,
           dst |-> staticFile(url), resp |-> Serve(hostFiles, url),
           wrote |-> FALSE])
    /\ UNCHANGED hostFiles
    /\ HostRest

\* A second passes on the host.
HostTick ==
    /\ hostClock < MaxClock
    /\ hostClock' = hostClock + 1
    /\ UNCHANGED <<hostFiles, hostLog, pipeVars, driftVars, webVars, fetchVars, auxVars>>

HostNext ==
    \/ \E u \in Uploads \cup NoFileRequests : UploadMkdirFails(u)
    \/ \E u \in NoFileRequests : UploadMissingFile(u)
    \/ \E u \in Uploads, how \in {"create", "copy"} : UploadSaveFails(u, how)
    \/ \E u \in Uploads : UploadSaved(u)
    \/ \E url \in GetURLs : HostGet(url)
    \/ HostTick

SpecHost == HostInit /\ [][HostNext]_vars

\* ------------------------------- the host: StartWeb, StopWeb, WebStatus

\* The goroutines that call into the server record.
Callers == {1, 2}

\* The arguments StartWeb is called with (<<>>: the empty dir).
Ports == {8080, 9090}
Dirs == {<<>>, <<"public">>, <<"missing">>}

\* os.Stat(dir) succeeds.
dirExists(dir) == dir = <<"public">>

\* fmt.Sprintf("0.0.0.0:%d", port)
bindAddr(port) == <<"0.0.0.0", port>>

NoCall == [op |-> "", port |-> 0, dir |-> <<>>, res |-> "", snap |-> WsZero,
           app |-> 0, seenRunning |-> FALSE, seenAddr |-> <<>>, calls |-> 0]

WebInit ==
    /\ ws = WsZero
    /\ mu = MuFree
    /\ gpc = [g \in Callers |-> "idle"]
    /\ gloc = [g \in Callers |-> NoCall]
    /\ apps = <<>>
    /\ live = NeverStarted
    /\ PipeIdle /\ DriftIdle /\ HostIdle /\ FetchIdle /\ AuxIdle

WebRest == UNCHANGED <<pipeVars, driftVars, hostVars, fetchVars, auxVars>>

At(g, where) == gpc[g] = where
Goto(g, where) == gpc' = [gpc EXCEPT ![g] = where]

\* A goroutine enters StartWeb(port, dir), StopWeb() or WebStatus().
Call(g, op, port, dir) ==
    /\ At(g, "idle")
    /\ gloc[g].calls < MaxCalls
    /\ gloc' = [gloc EXCEPT ![g] = [NoCall EXCEPT !.op = op, !.port = port, !.dir = dir,
                                                  !.calls = gloc[g].calls + 1]]
    /\ Goto(g, "lock")
    /\ UNCHANGED <<ws, mu, apps, live>>
    /\ WebRest

LockFree(g) == TRUE

\* ws.mu.Lock() waits until no goroutine holds the mutex.
CanLock(g) == mu.writer = 0 /\ mu.readers = {}

\* ws.mu.RLock() waits until no writer holds the mutex.
CanRLock(g) == mu.writer = 0

\* ws.mu.Lock() of StartWeb and StopWeb.
Lock(g) ==
    /\ At(g, "lock")
    /\ gloc[g].op \in {"start", "stop"}
    /\ CanLock(g)
    /\ mu' = [mu EXCEPT !.writer = g]
    /\ gloc' = [gloc EXCEPT ![g].snap = ws]
    /\ Goto(g, "check")
    /\ UNCHANGED <<ws, apps, live>>
    /\ WebRest

\* StartWeb: `if ws.running { return error }`, `if dir == "" { dir = "public" }`,
\* `if os.Stat(dir) fails { return error }`.
StartCheck(g) ==
    /\ At(g, "check") /\ gloc[g].op = "start"
    /\ LET dir == IF gloc[g].dir = <<>> THEN <<"public">> ELSE gloc[g].dir
       IN IF ws.running
          THEN gloc' = [gloc EXCEPT ![g].res = "already running"] /\ Goto(g, "unlock")
          ELSE IF ~dirExists(dir)
               THEN gloc' = [gloc EXCEPT ![g].res = "dir not found"] /\ Goto(g, "unlock")
               ELSE gloc' = [gloc EXCEPT ![g].dir = dir] /\ Goto(g, "setaddr")
    /\ UNCHANGED <<ws, mu, apps, live>>
    /\ WebRest

\* StartWeb: ws.addr, ws.dir and ws.errc are set.
StartSetAddr(g) ==
    /\ At(g, "setaddr")
    /\ ws' = [ws EXCEPT !.addr = bindAddr(gloc[g].port), !.dir = gloc[g].dir]
    /\ Goto(g, "newapp")
    /\ UNCHANGED <<mu, gloc, apps, live>>
    /\ WebRest

\* StartWeb: the app is built and `go func() { ws.errc <- app.Listen(ws.addr) }()`
\* is launched.
StartLaunch(g) ==
    /\ At(g, "newapp")
    /\ apps' = Append(apps, [state |-> "launched", addr |-> <<>>, by |-> g])
    /\ gloc' = [gloc EXCEPT ![g].app = Len(apps) + 1]
    /\ Goto(g, "setapp")
    /\ UNCHANGED <<ws, mu, live>>
    /\ WebRest

\* StartWeb: `ws.app = app`
StartSetApp(g) ==
    /\ At(g, "setapp")
    /\ ws' = [ws EXCEPT !.app = gloc[g].app]
    /\ Goto(g, "setrunning")
    /\ UNCHANGED <<mu, gloc, apps, live>>
    /\ WebRest

\* StartWeb: `ws.running = true`, `return nil`
StartSetRunning(g) ==
    /\ At(g, "setrunning")
    /\ ws' = [ws EXCEPT !.running = TRUE]
    /\ gloc' = [gloc EXCEPT ![g].res = "nil"]
    /\ Goto(g, "unlock")
    /\ UNCHANGED <<mu, apps, live>>
    /\ WebRest

\* The launched goroutine runs app.Listen(ws.addr): it reads ws.addr when it
\* gets to run, and binds (ok) or fails to.
AppListen(id, ok) ==
    /\ id \in 1..Len(apps)
    /\ apps[id].state = "launched"
    /\ apps' = [apps EXCEPT ![id].state = IF ok THEN "listening" ELSE "failed",
                            ![id].addr = ws.addr]
    /\ UNCHANGED <<ws, mu, gpc, gloc, live>>
    /\ WebRest

\* StopWeb: `if !ws.running || ws.app == nil { return error }`
StopCheck(g) ==
    /\ At(g, "check") /\ gloc[g].op = "stop"
    /\ IF ~ws.running \/ ws.app = 0
       THEN gloc' = [gloc EXCEPT ![g].res = "not running"] /\ Goto(g, "unlock")
       ELSE gloc' = [gloc EXCEPT ![g].app = ws.app] /\ Goto(g, "shutdown")
    /\ UNCHANGED <<ws, mu, apps, live>>
    /\ WebRest

\* StopWeb: `err := ws.app.Shutdown()`, then `ws.running = false`
StopShutdown(g, res) ==
    /\ At(g, "shutdown")
    /\ apps' = [apps EXCEPT ![ws.app].state = "shutdown"]
    /\ ws' = [ws EXCEPT !.running = FALSE]
    /\ gloc' = [gloc EXCEPT ![g].res = res]
    /\ Goto(g, "clearapp")
    /\ UNCHANGED <<mu, live>>
    /\ WebRest

StopKeepsApp(g) ==
    /\ At(g, "clearapp")
    /\ Goto(g, "unlock")
    /\ UNCHANGED <<ws, mu, gloc, apps, live>>
    /\ WebRest

\* StopWeb: `ws.app = nil`, the drain of ws.errc, `return err`
StopClearApp(g) ==
    /\ At(g, "clearapp")
    /\ ws' = [ws EXCEPT !.app = 0]
    /\ Goto(g, "unlock")
    /\ UNCHANGED <<mu, gloc, apps, live>>
    /\ WebRest

\* The deferred ws.mu.Unlock(): the call returns. live follows the calls
\* that changed the record.
Unlock(g) ==
    /\ At(g, "unlock")
    /\ gloc[g].op \in {"start", "stop"}
    /\ mu' = [mu EXCEPT !.writer = 0]
    /\ live' = IF gloc[g].op = "start" /\ gloc[g].res = "nil"
               THEN [state |-> "start", app |-> gloc[g].app,
                     addr |-> bindAddr(gloc[g].port)]
               ELSE IF gloc[g].op = "stop" /\ gloc[g].res # "not running"
                    THEN [live EXCEPT !.state = "stop"]
                    ELSE live
    /\ Goto(g, "idle")
    /\ UNCHANGED <<ws, gloc, apps>>
    /\ WebRest

\* WebStatus: ws.mu.RLock()
RLock(g) ==
    /\ At(g, "lock")
    /\ gloc[g].op = "status"
    /\ CanRLock(g)
    /\ mu' = [mu EXCEPT !.readers = mu.readers \cup {g}]
    /\ Goto(g, "read")
    /\ UNCHANGED <<ws, gloc, apps, live>>
    /\ WebRest

\* WebStatus: `return ws.running, ws.addr`
StatusRead(g) ==
    /\ At(g, "read")
    /\ gloc' = [gloc EXCEPT ![g].seenRunning = ws.running, ![g].seenAddr = ws.addr,
                            ![g].snap = ws, ![g].res = "read"]
    /\ Goto(g, "runlock")
    /\ UNCHANGED <<ws, mu, apps, live>>
    /\ WebRest

\* WebStatus: the deferred ws.mu.RUnlock()
RUnlock(g) ==
    /\ At(g, "runlock")
    /\ mu' = [mu EXCEPT !.readers = mu.readers \ {g}]
    /\ Goto(g, "idle")
    /\ UNCHANGED <<ws, gloc, apps, live>>
    /\ WebRest

WebNext ==
    \/ \E g \in Callers, port \in Ports, dir \in Dirs : Call(g, "start", port, dir)
    \/ \E g \in Callers : Call(g, "stop", 0, <<>>)
    \/ \E g \in Callers : Call(g, "status", 0, <<>>)
    \/ \E g \in Callers : Lock(g)
    \/ \E g \in Callers : StartCheck(g)
    \/ \E g \in Callers : StartSetAddr(g)
    \/ \E g \in Callers : StartLaunch(g)
    \/ \E g \in Callers : StartSetApp(g)
    \/ \E g \in Callers : StartSetRunning(g)
    \/ \E id \in 1..(2 * MaxCalls), ok \in BOOLEAN : AppListen(id, ok)
    \/ \E g \in Callers : StopCheck(g)
    \/ \E g \in Callers, res \in {"nil", "shutdown error"} : StopShutdown(g, res)
    \/ \E g \in Callers : StopClearApp(g)
    \/ \E g \in Callers : Unlock(g)
    \/ \E g \in Callers : RLock(g)
    \/ \E g \in Callers : StatusRead(g)
    \/ \E g \in Callers : RUnlock(g)

SpecWeb == WebInit /\ [][WebNext]_vars

\* ------------------------------------- ensureLocalMNIST, called again

\* public/mnist with the shards of the set have (whatever they hold).
MnistDisk(have) == [x \in {ShardPath(k) : k \in have} |-> "stale"]

\* The shards present in f.
presentShards(f) == {k \in 1..4 : ShardPath(k) \in DOMAIN f}

FetchInit ==
    /\ fdisk \in {MnistDisk(have) : have \in SUBSET (1..4)}
    /\ fcalls = <<>>
    /\ PipeIdle /\ DriftIdle /\ HostIdle /\ WebIdle /\ AuxIdle

FetchRest == UNCHANGED <<pipeVars, driftVars, hostVars, webVars, auxVars>>

\* What is kept of a call: the shards present when it started, the requests
\* it issued, whether it returned nil, and whether a file changed.
EnsureEntry(gets, ok, wrote) ==
    [present |-> presentShards(fdisk), gets |-> gets, ok |-> ok, wrote |-> wrote]

\* ensureLocalMNIST returns nil: every absent shard was downloaded, in order.
EnsureCall ==
    /\ Len(fcalls) < MaxEnsureCalls
    /\ LET miss == missingShards(fdisk)
       IN /\ fdisk' = WithShards(fdisk, miss, Len(miss))
          /\ fcalls' = Append(fcalls, EnsureEntry(ShardGets(miss, Len(miss)), TRUE,
                                                  fdisk' # fdisk))
    /\ FetchRest

\* ensureLocalMNIST fails in os.MkdirAll.
EnsureCallMkdirFails ==
    /\ Len(fcalls) < MaxEnsureCalls
    /\ fcalls' = Append(fcalls, EnsureEntry(<<>>, FALSE, FALSE))
    /\ UNCHANGED fdisk
    /\ FetchRest

\* ensureLocalMNIST fails at the k-th absent shard ("http": before the file
\* is created, "copy": while its body is copied).
EnsureCallFails(k, how) ==
    /\ Len(fcalls) < MaxEnsureCalls
    /\ LET miss == missingShards(fdisk)
       IN /\ k \in 1..Len(miss)
          /\ fdisk' = IF how = "copy"
                      THEN Put(WithShards(fdisk, miss, k - 1), ShardPath(miss[k]), "partial")
                      ELSE WithShards(fdisk, miss, k - 1)
          /\ fcalls' = Append(fcalls, EnsureEntry(ShardGets(miss, k), FALSE,
                                                  fdisk' # fdisk))
    /\ FetchRest

FetchNext ==
    \/ EnsureCall
    \/ EnsureCallMkdirFails
    \/ \E k \in 1..4, how \in {"http", "copy"} : EnsureCallFails(k, how)

SpecFetch == FetchInit /\ [][FetchNext]_vars

\* ------------------------------------ writeJSON, then the upload

\* The reports writeJSON is given, and what reports_local may hold when the
\* stage is entered: nothing, a report of the same second at the target, a
\* temporary file an earlier failed save left behind.
ReportBodies == {"R1", "R2", "R3"}
File(body, complete) == [complete |-> complete, body |-> body]
StartFiles ==
    {t @@ u : t \in {EmptyMap} \cup {localPath :> File(b, TRUE) : b \in ReportBodies},
              u \in {EmptyMap, tmpPath :> File("R0", FALSE), tmpPath :> File("R0", TRUE)}}

WriteInit ==
    /\ wpc = "mkdir"
    /\ wfiles \in StartFiles
    /\ wstart = wfiles
    /\ wbody \in ReportBodies
    /\ wsent = <<>>
    /\ WriteOthersIdle

WriteRest == UNCHANGED <<wstart, wbody, writeOthers>>

\* os.MkdirAll(outDir), `tmp := path + ".tmp"`, os.Create(tmp): the
\* temporary file exists and is empty.
WriteCreate ==
    /\ wpc = "mkdir"
    /\ wfiles' = Put(wfiles, tmpPath, File("", FALSE))
    /\ wpc' = "encode"
    /\ UNCHANGED wsent
    /\ WriteRest

\* os.MkdirAll or os.Create fails: writeJSON returns before anything is
\* written.
WriteCreateFails ==
    /\ wpc = "mkdir"
    /\ wpc' = "failed"
    /\ UNCHANGED <<wfiles, wsent>>
    /\ WriteRest

\* enc.Encode(v) has written a part of the report.
WriteEncodePart ==
    /\ wpc = "encode"
    /\ wfiles[tmpPath] = File("", FALSE)
    /\ wfiles' = Put(wfiles, tmpPath, File(wbody, FALSE))
    /\ UNCHANGED <<wpc, wsent>>
    /\ WriteRest

\* enc.Encode(v) returns nil and the file is closed.
WriteEncode ==
    /\ wpc = "encode"
    /\ wfiles' = Put(wfiles, tmpPath, File(wbody, TRUE))
    /\ wpc' = "rename"
    /\ UNCHANGED wsent
    /\ WriteRest

\* enc.Encode(v) fails: `f.Close(); return err`, whatever was written stays
\* in the temporary file.
WriteEncodeFails ==
    /\ wpc = "encode"
    /\ wpc' = "encode failed"
    /\ UNCHANGED <<wfiles, wsent>>
    /\ WriteRest

\* os.Rename(tmp, path): the target is replaced in one step.
WriteRename ==
    /\ wpc = "rename"
    /\ wfiles' = Put(Remove(wfiles, tmpPath), localPath, wfiles[tmpPath])
    /\ wpc' = "upload"
    /\ UNCHANGED wsent
    /\ WriteRest

\* os.Rename fails.
WriteRenameFails ==
    /\ wpc = "rename"
    /\ wpc' = "failed"
    /\ UNCHANGED <<wfiles, wsent>>
    /\ WriteRest

\* uploadFile: the target is opened, copied into the multipart body and
\* POSTed (the host answers 200 or not).
WriteUpload(ok) ==
    /\ wpc = "upload"
    /\ wsent' = Append(wsent, POST(uploadURL, reportName, wfiles[localPath]))
    /\ wpc' = IF ok THEN "done" ELSE "push failed"
    /\ UNCHANGED wfiles
    /\ WriteRest

WriteNext ==
    \/ WriteCreate
    \/ WriteCreateFails
    \/ WriteEncodePart
    \/ WriteEncode
    \/ WriteEncodeFails
    \/ WriteRename
    \/ WriteRenameFails
    \/ \E ok \in BOOLEAN : WriteUpload(ok)

SpecWrite == WriteInit /\ [][WriteNext]_vars

\* ------------------------------------ firstIndexPerDigit on its own

\* The label sequences it is called with, by class: every short sequence,
\* and the first labels of the training shard, whole, cut, and with some
\* classes taken out.
LabelSeqs ==
    UNION {[1..n -> Digits] : n \in 0..MaxLabels}
    \cup UNION {{SubSeq(Without(BaseLabels, miss), 1, n) :
                    n \in {10, Len(Without(BaseLabels, miss)) - 2,
                           Len(Without(BaseLabels, miss))}} : miss \in MissingSets}

IndexInit ==
    /\ idxLabels \in {[k \in 1..Len(q) |-> labelToOneHot(q[k])] : q \in LabelSeqs}
    /\ idxOut = NoIndex
    /\ IndexOthersIdle

IndexCall ==
    /\ ~idxOut.called
    /\ idxOut' = [called |-> TRUE, m |-> firstIndexPerDigit(idxLabels)]
    /\ UNCHANGED <<idxLabels, indexOthers>>

SpecIndex == IndexInit /\ [][IndexCall]_vars

\* ------------------------------------ loadMNISTData on its own
\*
\* A shard is the sequence of its cells: the 32-bit words of its header
\* (magic, count, and for an image shard rows and columns), then one cell
\* per byte. A file that ends inside the header ends between two words.

ImgHeader == 4
LblHeader == 2
ShardRows == 1
ShardCols == 2

\* The pixel bytes of n images, and the shards the host serves: n images of
\* ShardRows x ShardCols pixels, the first n labels of the training shard.
PixelBytes(n) == [k \in 1..(n * ShardRows * ShardCols) |-> 10 * k]
ImageShard(n) == <<2051, n, ShardRows, ShardCols>> \o PixelBytes(n)
LabelShard(n) == <<2049, n>> \o SubSeq(BaseLabels, 1, n)
ServedShards ==
    <<ImageShard(MaxShardImages), LabelShard(MaxShardImages), ImageShard(1), LabelShard(1)>>

\* f.Read(header[:]) into a zeroed array: what the array holds afterwards.
\* A read at the end of the file returns io.EOF; a short read is no error.
readHeader(file, n) == [k \in 1..n |-> IF k <= Len(file) THEN file[k] ELSE 0]

\* float64(buf[r*cols+c]) / 255.0 for every pixel of one image
imageOf(buf, rows, cols) ==
    [r \in 1..rows |-> [c \in 1..cols |-> Frac(buf[(r - 1) * cols + c], 255)]]

\* loadMNISTImages: the loop `for i := 0; i < num; i++` from image i on, the
\* file read up to pos, buf as the previous pass left it.
RECURSIVE readImages(_, _, _, _, _, _, _, _)
readImages(file, pos, i, num, rows, cols, buf, acc) ==
    IF i >= num THEN [err |-> FALSE, images |-> acc]
    ELSE IF rows * cols = 0
         THEN readImages(file, pos, i + 1, num, rows, cols, buf,
                         Append(acc, imageOf(buf, rows, cols)))
    ELSE IF pos >= Len(file) THEN [err |-> TRUE, images |-> <<>>]
    ELSE LET n == IF Len(file) - pos < rows * cols THEN Len(file) - pos
                  ELSE rows * cols
             got == [k \in 1..(rows * cols) |-> IF k <= n THEN file[pos + k] ELSE buf[k]]
         IN readImages(file, pos + n, i + 1, num, rows, cols, got,
                       Append(acc, imageOf(got, rows, cols)))

\* loadMNISTImages(path) for the file at path, when there is one
loadMNISTImages(file) ==
    IF Len(file) = 0 THEN [err |-> TRUE, images |-> <<>>]
    ELSE LET h == readHeader(file, ImgHeader)
             pos == IF Len(file) < ImgHeader THEN Len(file) ELSE ImgHeader
         IN readImages(file, pos, 0, h[2], h[3], h[4],
                       [k \in 1..(h[3] * h[4]) |-> 0], <<>>)

\* loadMNISTLabels: the loop from label i on; labelToOneHot indexes a slice
\* of 10 and panics on a byte above 9.
RECURSIVE readLabels(_, _, _, _, _)
readLabels(file, pos, i, num, acc) ==
    IF i >= num THEN [err |-> FALSE, panic |-> FALSE, labels |-> acc]
    ELSE IF pos >= Len(file) THEN [err |-> TRUE, panic |-> FALSE, labels |-> <<>>]
    ELSE IF file[pos + 1] >= OutLen THEN [err |-> FALSE, panic |-> TRUE, labels |-> <<>>]
    ELSE readLabels(file, pos + 1, i + 1, num, Append(acc, labelToOneHot(file[pos + 1])))

\* loadMNISTLabels(path) for the file at path, when there is one
loadMNISTLabels(file) ==
    IF Len(file) = 0 THEN [err |-> TRUE, panic |-> FALSE, labels |-> <<>>]
    ELSE LET h == readHeader(file, LblHeader)
             pos == IF Len(file) < LblHeader THEN Len(file) ELSE LblHeader
         IN readLabels(file, pos, 0, h[2], <<>>)

\* loadMNISTData(dir): the train pair, then the t10k pair; os.Open fails on
\* a file that is not there.
RECURSIVE loadPairs(_, _, _, _)
loadPairs(files, k, imgs, lbls) ==
    IF k > 3 THEN [called |-> TRUE, kind |-> "ok", images |-> imgs, labels |-> lbls]
    ELSE LET failed == [called |-> TRUE, kind |-> "err", images |-> <<>>, labels |-> <<>>]
         IN IF k \notin DOMAIN files \/ loadMNISTImages(files[k]).err THEN failed
            ELSE IF (k + 1) \notin DOMAIN files \/ loadMNISTLabels(files[k + 1]).err
                 THEN failed
            ELSE IF loadMNISTLabels(files[k + 1]).panic
                 THEN [failed EXCEPT !.kind = "panic"]
            ELSE loadPairs(files, k + 2,
                           imgs \o loadMNISTImages(files[k]).images,
                           lbls \o loadMNISTLabels(files[k + 1]).labels)

loadMNISTData(files) == loadPairs(files, 1, <<>>, <<>>)

\* What a shard file may hold: any beginning of the served shard (a download
\* that broke off, or the whole of it), and for the last one a label byte
\* that is no digit.
Prefixes(q) == {SubSeq(q, 1, n) : n \in 0..Len(q)}
ShardStates(k) ==
    Prefixes(ServedShards[k]) \cup (IF k = 4 THEN {<<2049, 1, 12>>} ELSE {})

\* The directories loadMNISTData is called on: each shard absent or in one
\* of its states.
LoadInit ==
    /\ \E have \in SUBSET (1..4) :
       \E s1 \in ShardStates(1), s2 \in ShardStates(2),
          s3 \in ShardStates(3), s4 \in ShardStates(4) :
          ldFiles = [k \in have |-> <<s1, s2, s3, s4>>[k]]
    /\ ldOut = NoLoad
    /\ LoadOthersIdle

LoadCall ==
    /\ ~ldOut.called
    /\ ldOut' = loadMNISTData(ldFiles)
    /\ UNCHANGED <<ldFiles, loadOthers>>

SpecLoad == LoadInit /\ [][LoadCall]_vars

\* ------------------------------------ the pipeline, invoked repeatedly
\*
\* Each action is one invocation of RunTelemetryPipeline against the same
\* host, on the disk the invocations before it left; the machine starts
\* with nothing downloaded.

\* The file names of the host's manifest, and where each is downloaded to.
HostModels == << <<"a.json">>, <<"sub", "b.json">> >>
ModelPath(j) == Join(modelDirLocal, HostModels[j])

RerunInit ==
    /\ rmodels = EmptyMap
    /\ rshards = EmptyMap
    /\ rruns = <<>>
    /\ RerunOthersIdle

\* The download loop after its first n entries were fetched in full.
modelsFetched(f, n) ==
    [x \in (DOMAIN f) \cup {ModelPath(j) : j \in 1..n} |->
        IF x \in {ModelPath(j) : j \in 1..n} THEN "served" ELSE f[x]]

\* ensureLocalMNIST after the first n shards of miss were fetched in full.
shardsFetched(f, miss, n) ==
    [x \in (DOMAIN f) \cup {ShardPath(miss[j]) : j \in 1..n} |->
        IF x \in {ShardPath(miss[j]) : j \in 1..n}
        THEN ServedShards[CHOOSE k \in 1..4 : ShardPath(k) = x] ELSE f[x]]

\* public/mnist as loadMNISTData sees it.
shardDir(f) == [k \in {i \in 1..4 : ShardPath(i) \in DOMAIN f} |-> f[ShardPath(k)]]

\* One more invocation may start.
CanRun == Len(rruns) < MaxRuns

\* The invocation fails in the download of the j-th model: before the file
\* is created ("http"), or while its body is copied ("copy").
RerunDownloadFails(j, how) ==
    /\ CanRun
    /\ j \in 1..Len(HostModels)
    /\ rmodels' = IF how = "copy"
                  THEN Put(modelsFetched(rmodels, j - 1), ModelPath(j), "partial")
                  ELSE modelsFetched(rmodels, j - 1)
    /\ rruns' = Append(rruns, "download")
    /\ UNCHANGED <<rshards, rerunOthers>>

\* The models are fetched, ensureLocalMNIST fails at the k-th absent shard:
\* before the file is created (n = -1) or with n cells of it copied.
RerunEnsureFails(k, n) ==
    /\ CanRun
    /\ LET miss == missingShards(rshards)
       IN /\ k \in 1..Len(miss)
          /\ n < Len(ServedShards[miss[k]])
          /\ rshards' = IF n < 0 THEN shardsFetched(rshards, miss, k - 1)
                        ELSE Put(shardsFetched(rshards, miss, k - 1), ShardPath(miss[k]),
                                 SubSeq(ServedShards[miss[k]], 1, n))
    /\ rmodels' = modelsFetched(rmodels, Len(HostModels))
    /\ rruns' = Append(rruns, "ensure mnist")
    /\ UNCHANGED rerunOthers

\* Every fetch succeeds; the invocation ends as loadMNISTData and the stages
\* after it let it: "ok" only when the dataset loads and nothing later
\* fails (later = FALSE).
RerunFetches(later) ==
    /\ CanRun
    /\ rmodels' = modelsFetched(rmodels, Len(HostModels))
    /\ rshards' = shardsFetched(rshards, missingShards(rshards),
                                Len(missingShards(rshards)))
    /\ rruns' = Append(rruns,
                   CASE loadMNISTData(shardDir(rshards')).kind = "err" -> "load mnist"
                     [] loadMNISTData(shardDir(rshards')).kind = "panic" -> "panic"
                     [] OTHER -> IF later THEN "later" ELSE "ok")
    /\ UNCHANGED rerunOthers

RerunNext ==
    \/ \E j \in 1..2, how \in {"http", "copy"} : RerunDownloadFails(j, how)
    \/ \E k \in 1..4, n \in (-1)..(ImgHeader + MaxShardImages * ShardRows * ShardCols) :
          RerunEnsureFails(k, n)
    \/ \E later \in BOOLEAN : RerunFetches(later)

SpecRerun == RerunInit /\ [][RerunNext]_vars

\* ------------------------------------ the web variant's computeADHD

\* bucket(truth, pred)
bucket(truth, pred) ==
    IF pred = truth THEN "correct"
    ELSE IF Abs(pred - truth) = 1 THEN "off_by_1"
    ELSE "wrong"

\* One pass of the loop of computeADHD for c = CPU[i], g = GPU[i]. a holds
\* B, driftSum, driftMax, agree and per.
computeADHDBody(a, c, g) ==
    LET truth == c.digit
        cpuBucket == bucket(truth, c.pred)
        gpuBucket == bucket(truth, g.pred)
        agreeNow == (c.pred = g.pred)
        dd == Abs(c.top1_score - g.top1_score)
        b == a.buckets
    IN [buckets |->
           [cpu_correct |-> b.cpu_correct + (IF cpuBucket = "correct" THEN 1 ELSE 0),
            cpu_off_by_1 |-> b.cpu_off_by_1 + (IF cpuBucket = "off_by_1" THEN 1 ELSE 0),
            cpu_wrong |-> b.cpu_wrong + (IF cpuBucket = "wrong" THEN 1 ELSE 0),
            gpu_correct |-> b.gpu_correct + (IF gpuBucket = "correct" THEN 1 ELSE 0),
            gpu_off_by_1 |-> b.gpu_off_by_1 + (IF gpuBucket = "off_by_1" THEN 1 ELSE 0),
            gpu_wrong |-> b.gpu_wrong + (IF gpuBucket = "wrong" THEN 1 ELSE 0),
            agree |-> b.agree + (IF agreeNow THEN 1 ELSE 0),
            disagree |-> b.disagree + (IF agreeNow THEN 0 ELSE 1)],
        agree |-> a.agree + (IF agreeNow THEN 1 ELSE 0),
        driftSum |-> a.driftSum + dd,
        driftMax |-> IF dd > a.driftMax THEN dd ELSE a.driftMax,
        per |-> Append(a.per,
                   [digit |-> truth, idx |-> c.idx,
                    cpu_pred |-> c.pred, gpu_pred |-> g.pred,
                    cpu_bucket |-> cpuBucket, gpu_bucket |-> gpuBucket,
                    agreement |-> IF agreeNow THEN "agree" ELSE "disagree"])]

\* `for (let i = 0; i < Math.min(CPU.length, GPU.length); i++)` from i on
RECURSIVE computeADHDLoop(_, _, _, _)
computeADHDLoop(CPU, GPU, i, a) ==
    IF i > Len(CPU) \/ i > Len(GPU) THEN a
    ELSE computeADHDLoop(CPU, GPU, i + 1, computeADHDBody(a, CPU[i], GPU[i]))

\* computeADHD(CPU, GPU)
computeADHD(CPU, GPU) ==
    LET a == computeADHDLoop(CPU, GPU, 1,
                 [buckets |-> NoBuckets, agree |-> 0, driftSum |-> 0, driftMax |-> 0,
                  per |-> <<>>])
        m == IF Len(CPU) < Len(GPU) THEN Len(CPU) ELSE Len(GPU)
        n == IF m < 1 THEN 1 ELSE m
    IN [top1_accuracy_cpu |-> Frac(a.buckets.cpu_correct * 100, n),
        top1_accuracy_gpu |-> Frac(a.buckets.gpu_correct * 100, n),
        cpu_vs_gpu_agree_count |-> a.agree,
        avg_drift_mae |-> Frac(a.driftSum, n),
        max_drift_max_abs |-> a.driftMax,
        buckets |-> a.buckets,
        per_sample |-> a.per]

\* The aligned sample lists computeADHD is called with: at each position the
\* same digit and index on both sides, predictions that hit, miss by one or
\* miss by more.
WebPreds == {5, 4, 6, 2}
WebPairs ==
    {<<[digit |-> 5, idx |-> 0, pred |-> p, top1_score |-> 9],
       [digit |-> 5, idx |-> 0, pred |-> q, top1_score |-> IF q = p THEN 9 ELSE 7]>> :
       p \in WebPreds, q \in WebPreds}
WebRuns == UNION {[1..n -> WebPairs] : n \in 0..MaxWebSamples}

WadInit ==
    /\ \E r \in WebRuns :
          /\ wadCPU = [k \in 1..Len(r) |-> r[k][1]]
          /\ wadGPU = [k \in 1..Len(r) |-> r[k][2]]
    /\ wadOut = NoWad
    /\ WadOthersIdle

WadCall ==
    /\ ~wadOut.called
    /\ wadOut' = [called |-> TRUE, score |-> computeADHD(wadCPU, wadGPU)]
    /\ UNCHANGED <<wadCPU, wadGPU, wadOthers>>

SpecWad == WadInit /\ [][WadCall]_vars

\* ------------------------------------------- benchmarkModelsOnDigits

\* What a directory entry of models/ can be: a directory, a file without
\* the .json suffix, manifest.json, a .json file that does not load, one that
\* loads as another type than float32, one that loads as float32.
EntryKinds == {"dir", "other", "manifest", "unloadable", "float64", "float32"}
DirListings == UNION {[1..n -> EntryKinds] : n \in 0..MaxBenchModels}

BenchInit ==
    /\ bpc = "start"
    /\ bwithGpu \in BOOLEAN
    /\ bentries \in DirListings
    /\ bi = 0
    /\ bactive = {}
    /\ bdefers = <<>>
    /\ BenchOthersIdle

BenchRest == UNCHANGED <<bwithGpu, bentries, benchOthers>>

\* loadMNISTData or os.ReadDir fails: the function returns.
BenchReturnEarly ==
    /\ bpc = "start"
    /\ bpc' = "returned"
    /\ UNCHANGED <<bi, bactive, bdefers>>
    /\ BenchRest

\* Dataset and listing are there: the range loop starts.
BenchBegin ==
    /\ bpc = "start"
    /\ bpc' = "loop"
    /\ bi' = 1
    /\ UNCHANGED <<bactive, bdefers>>
    /\ BenchRest

\* An entry the loop passes over: the filter, the load, the type assertion.
BenchSkip ==
    /\ bpc = "loop"
    /\ bi <= Len(bentries)
    /\ bentries[bi] # "float32"
    /\ bi' = bi + 1
    /\ UNCHANGED <<bpc, bactive, bdefers>>
    /\ BenchRest

\* A float32 model. built: NewNetwork, MarshalJSONModel and UnmarshalJSONModel
\* succeed; initOK: InitializeOptimizedGPU succeeds. With the GPU on, the
\* cleanup of the context is deferred.
BenchModel(built, initOK) ==
    /\ bpc = "loop"
    /\ bi <= Len(bentries)
    /\ bentries[bi] = "float32"
    /\ IF ~built
       THEN /\ bi' = bi + 1
            /\ UNCHANGED <<bpc, bactive, bdefers>>
       ELSE /\ bpc' = "digits"
            /\ IF bwithGpu /\ initOK
               THEN /\ bactive' = bactive \cup {bi}
                    /\ bdefers' = <<bi>> \o bdefers
               ELSE UNCHANGED <<bactive, bdefers>>
            /\ UNCHANGED bi
    /\ BenchRest

\* The ten forward passes of the model; the loop goes on to the next entry.
BenchDigits ==
    /\ bpc = "digits"
    /\ bpc' = "loop"
    /\ bi' = bi + 1
    /\ UNCHANGED <<bactive, bdefers>>
    /\ BenchRest

\* The range is used up: the function returns, its deferred calls run.
BenchLoopEnds ==
    /\ bpc = "loop"
    /\ bi > Len(bentries)
    /\ bpc' = "defers"
    /\ UNCHANGED <<bi, bactive, bdefers>>
    /\ BenchRest

\* One deferred CleanupOptimizedGPU.
BenchCleanup ==
    /\ bpc = "defers"
    /\ bdefers # <<>>
    /\ bactive' = bactive \ {Head(bdefers)}
    /\ bdefers' = Tail(bdefers)
    /\ UNCHANGED <<bpc, bi>>
    /\ BenchRest

BenchReturns ==
    /\ bpc = "defers"
    /\ bdefers = <<>>
    /\ bpc' = "returned"
    /\ UNCHANGED <<bi, bactive, bdefers>>
    /\ BenchRest

BenchNext ==
    \/ BenchReturnEarly
    \/ BenchBegin
    \/ BenchSkip
    \/ \E built \in BOOLEAN, initOK \in BOOLEAN : BenchModel(built, initOK)
    \/ BenchDigits
    \/ BenchLoopEnds
    \/ BenchCleanup
    \/ BenchReturns

SpecBench == BenchInit /\ [][BenchNext]_vars

\* ------------------------------------------------------------ claims

Range(q) == {q[k] : k \in 1..Len(q)}

Posts == {k \in 1..Len(httpLog) : httpLog[k].method = "POST"}

ReportsUntouched == reportsLocal = (oldReportPath :> OldReport)

\* cpu, gpu and drift of m have one length, at most 10, carry the same
\* (digit, idx) at each position, and their digits ascend strictly.
Aligned(m) ==
    /\ Len(m.cpu) = Len(m.gpu)
    /\ Len(m.gpu) = Len(m.drift)
    /\ Len(m.cpu) <= MaxDigit + 1
    /\ \A i \in 1..Len(m.cpu) :
          /\ m.cpu[i].digit = m.gpu[i].digit /\ m.gpu[i].digit = m.drift[i].digit
          /\ m.cpu[i].idx = m.gpu[i].idx /\ m.gpu[i].idx = m.drift[i].idx
    /\ \A i \in 1..(Len(m.cpu) - 1) : m.cpu[i].digit < m.cpu[i + 1].digit

\* C1: every ModelRun that runModelTelemetry returns (the one about to be
\* returned, and each one appended to per) has |cpu| = |gpu| = |drift| <= 10,
\* the same (digit, idx) at every position of the three arrays, and strictly
\* ascending digits.
C1_RunsAligned ==
    /\ (pc = "ret" => Aligned(Returned))
    /\ \A k \in 1..Len(per) : Aligned(per[k])

\* A run over a dataset that lacks two digits, with the GPU initialised.
C1_Witness ==
    \E k \in 1..Len(per) : Len(per[k].cpu) = 8 /\ per[k].webgpu_init_ok

\* The bucket sums of the score of run m.
BucketSums(m) ==
    LET s == m.adhd10
        b == s.buckets
        N == Len(m.cpu)
    IN /\ b.cpu_correct + b.cpu_wrong = N
       /\ b.gpu_correct + b.gpu_wrong = N
       /\ b.agree + b.disagree = N
       /\ Len(s.per_sample) = N
       /\ s.cpu_vs_gpu_agree_count = b.agree
       /\ b.agree = Cardinality({i \in 1..N : m.cpu[i].pred = m.gpu[i].pred})

\* C2: in every ADHDScore computed from a run with N samples, cpu_correct +
\* cpu_wrong = N, gpu_correct + gpu_wrong = N, agree + disagree = N,
\* |per_sample| = N, and cpu_vs_gpu_agree_count = agree = the number of
\* positions where the CPU and GPU predictions are equal.
C2_BucketSums == \A k \in 1..Len(per) : BucketSums(per[k])

\* A score with agreeing and disagreeing samples and an off-by-one prediction.
C2_Witness ==
    \E k \in 1..Len(per) :
        /\ per[k].adhd10.buckets.agree > 0
        /\ per[k].adhd10.buckets.disagree > 0
        /\ per[k].adhd10.buckets.cpu_off_by_1 > 0

\* C3: a model whose load, float32 check, topology rebuild or weight import
\* failed contributes no ModelRun to per_model.
C3_FailedModelYieldsNoRun ==
    \A j \in 1..Len(engineLog) : ~engineLog[j].ok => engineLog[j].i \notin Range(perIdx)

PreLoopErrors == {"fetch manifest", "download", "ensure mnist", "load mnist"}

\* C4: once a stage before the model loop has failed (manifest fetch, model
\* download, MNIST shard download, dataset load) the invocation has returned
\* that error: no model is run, nothing is written under reports_local and
\* no POST is issued.
C4_PreLoopFailureAborts ==
    err \in PreLoopErrors =>
        /\ pc = "failed"
        /\ engineLog = <<>> /\ per = <<>>
        /\ ReportsUntouched
        /\ Posts = {}

\* The dataset fails to load after two models were downloaded.
C4_Witness == pc = "failed" /\ err = "load mnist" /\ Len(modelFiles) = 2

\* C5: when the upload fails the invocation returns an error, the local
\* report holds exactly the report that was written, and at most one POST
\* was issued.
C5_UploadFailureKeepsReport ==
    err = "push report" =>
        /\ pc = "failed"
        /\ localPath \in DOMAIN reportsLocal
        /\ reportsLocal[localPath] = [complete |-> TRUE, body |-> Report]
        /\ Cardinality(Posts) <= 1

\* A failed POST of a report that holds a model run.
C5_Witness == err = "push report" /\ Posts # {} /\ Len(per) > 0

\* The host answered the manifest request with the empty list.
ServedEmptyManifest ==
    /\ pc # "start" /\ err \notin {"mkdir", "fetch manifest"}
    /\ manifest = <<>>

\* C6, as claimed: an empty manifest lets the pipeline complete without error.
C6_EmptyManifestCompletes == ServedEmptyManifest => pc # "failed"

\* C6, amended: an empty manifest makes RunTelemetryPipeline return the error
\* "manifest empty" right after the fetch: nothing is downloaded or run, no
\* report is written and nothing is uploaded.
C6_EmptyManifestRejected ==
    ServedEmptyManifest =>
        /\ pc = "failed" /\ err = "manifest empty"
        /\ httpLog = <<GET(manifestURL)>>
        /\ modelFiles = <<>> /\ engineLog = <<>>
        /\ ReportsUntouched

\* The invocation has ended on the empty-manifest error.
C6_Witness == pc = "failed" /\ err = "manifest empty"

\* The non-empty filenames of the manifest, in manifest order.
UsedFilenames ==
    LET names == [k \in 1..Len(manifest) |-> manifest[k].filename]
    IN SelectSeq(names, LAMBDA fn : fn # <<>>)

ReportWritten == pc \in {"upload", "done"} \/ err = "push report"

WrittenReport == reportsLocal[localPath].body

\* per_model is the sub-list of the models at the positions perIdx, in order,
\* and every model missing from it is one whose load failed.
PerModelInOrder(r) ==
    /\ Len(r.per_model) = Len(perIdx)
    /\ \A k \in 1..Len(perIdx) :
          /\ perIdx[k] \in 1..Len(r.models_used)
          /\ r.per_model[k].model_file = r.models_used[perIdx[k]]
    /\ \A k \in 1..(Len(perIdx) - 1) : perIdx[k] < perIdx[k + 1]
    /\ \A i \in 1..Len(r.models_used) :
          i \notin Range(perIdx) =>
              \E j \in 1..Len(engineLog) : engineLog[j].i = i /\ ~engineLog[j].ok

\* Only the non-empty filenames were requested, each once, in order.
ModelGets ==
    SelectSeq(httpLog, LAMBDA q : q.method = "GET" /\ q.url[1] = "models"
                                  /\ q.url # manifestURL)

\* C7, as claimed: models_used is the list of the manifest's non-empty
\* filenames in manifest order and per_model follows it.
C7_ModelsUsedAreFilenames ==
    ReportWritten =>
        /\ WrittenReport.models_used = UsedFilenames
        /\ PerModelInOrder(WrittenReport)

\* C7, amended: models_used is the list of the base names of the local
\* paths of the manifest's non-empty filenames, in manifest order; entries
\* with an empty filename are neither downloaded nor listed; per_model
\* follows models_used in order, lacking only models that failed.
C7_ModelsUsedAreBaseNames ==
    ReportWritten =>
        /\ WrittenReport.models_used =
              [k \in 1..Len(UsedFilenames) |-> Base(Join(modelDirLocal, UsedFilenames[k]))]
        /\ [k \in 1..Len(ModelGets) |-> ModelGets[k].url] =
              [k \in 1..Len(UsedFilenames) |-> <<"models">> \o UsedFilenames[k]]
        /\ PerModelInOrder(WrittenReport)

\* A report over two models of which the first failed to load.
C7_Witness ==
    /\ pc = "done"
    /\ Len(WrittenReport.models_used) = 2
    /\ WrittenReport.models_used[1] # WrittenReport.models_used[2]
    /\ perIdx = <<2>>

\* C8: a run whose GPU init failed has gpu[i].pred = cpu[i].pred and
\* gpu[i].output = cpu[i].output at every position, zero drift, and
\* agree = N, disagree = 0; its GPU flag is off while it is probed.
C8_FallbackEqualsCPU ==
    /\ (pc = "probe" /\ ~cur.gpuInitOK => ~cur.gpuFlag)
    /\ \A k \in 1..Len(per) :
          ~per[k].webgpu_init_ok =>
              /\ Len(per[k].gpu) = Len(per[k].cpu)
              /\ \A i \in 1..Len(per[k].cpu) :
                    /\ per[k].gpu[i].pred = per[k].cpu[i].pred
                    /\ per[k].gpu[i].output = per[k].cpu[i].output
                    /\ per[k].drift[i].max_abs = 0
                    /\ per[k].drift[i].mae = FracZero
              /\ per[k].adhd10.buckets.agree = Len(per[k].cpu)
              /\ per[k].adhd10.buckets.disagree = 0

Inits(i) == {j \in 1..Len(gpuLog) : gpuLog[j] = [ev |-> "init", i |-> i]}
Cleanups(i) == {j \in 1..Len(gpuLog) : gpuLog[j] = [ev |-> "cleanup", i |-> i]}

\* C9, as claimed: every model that was run had cleanup_gpu called on its GPU
\* handle by the time runModelTelemetry returned, GPU init failure included.
C9_CleanupOnEveryPath ==
    \A k \in 1..Len(perIdx) : Cleanups(perIdx[k]) # {}

\* C9, amended: a model that was run had cleanup_gpu called, once, exactly
\* when its init_gpu had succeeded; each successful init_gpu is followed by
\* that model's cleanup_gpu before any other GPU event, and is unmatched
\* only while that model is still inside runModelTelemetry (or the process
\* has panicked in the warm-up).
C9_CleanupIffInitOK ==
    /\ \A k \in 1..Len(perIdx) :
          /\ per[k].webgpu_init_ok <=> Cleanups(perIdx[k]) # {}
          /\ Cardinality(Cleanups(perIdx[k])) = Cardinality(Inits(perIdx[k]))
          /\ Cardinality(Cleanups(perIdx[k])) <= 1
    /\ \A j \in 1..Len(gpuLog) :
          gpuLog[j].ev = "init" =>
              IF j < Len(gpuLog)
              THEN gpuLog[j + 1] = [ev |-> "cleanup", i |-> gpuLog[j].i]
              ELSE gpuLog[j].i = mi /\ pc \in {"probe", "ret", "panic"}

\* Two models ran with the GPU: init, cleanup, init, cleanup.
C9_Witness ==
    /\ Len(perIdx) = 2
    /\ gpuLog = <<[ev |-> "init", i |-> 1], [ev |-> "cleanup", i |-> 1],
                  [ev |-> "init", i |-> 2], [ev |-> "cleanup", i |-> 2]>>

\* C10, as claimed: the accuracies are the percentages correct / N * 100.
C10_AccuracyIsPercentage ==
    \A k \in 1..Len(per) :
        Len(per[k].cpu) >= 1 =>
            /\ per[k].adhd10.top1_accuracy_cpu =
                  Frac(100 * per[k].adhd10.buckets.cpu_correct, Len(per[k].cpu))
            /\ per[k].adhd10.top1_accuracy_gpu =
                  Frac(100 * per[k].adhd10.buckets.gpu_correct, Len(per[k].cpu))

\* C10, amended: the accuracies are the fractions correct / N, in [0, 1].
C10_AccuracyIsFraction ==
    \A k \in 1..Len(per) :
        Len(per[k].cpu) >= 1 =>
            /\ per[k].adhd10.top1_accuracy_cpu =
                  Frac(per[k].adhd10.buckets.cpu_correct, Len(per[k].cpu))
            /\ per[k].adhd10.top1_accuracy_gpu =
                  Frac(per[k].adhd10.buckets.gpu_correct, Len(per[k].cpu))
            /\ per[k].adhd10.top1_accuracy_cpu.n <= per[k].adhd10.top1_accuracy_cpu.d
            /\ per[k].adhd10.top1_accuracy_gpu.n <= per[k].adhd10.top1_accuracy_gpu.d

\* Five of ten samples correct on the CPU path: the accuracy is 1/2.
C10_Witness ==
    \E k \in 1..Len(per) :
        /\ Len(per[k].cpu) = 10
        /\ per[k].adhd10.buckets.cpu_correct = 5
        /\ per[k].adhd10.top1_accuracy_cpu = [n |-> 1, d |-> 2]

\* |a_i - b_i| at every position of the two arguments.
AbsDiffs == [k \in 1..Len(driftA) |-> Abs(driftA[k] - driftB[k])]

\* C11: for equal-length non-empty a and b, driftMaxAndMAE returns max_abs =
\* max_i |a_i - b_i| and mae = (sum_i |a_i - b_i|) / n, so that mae <= max_abs
\* <= sum, and both are 0 when a = b; for an empty input or a length
\* mismatch it returns (0, 0).
C11_DriftMaxAndMAE ==
    driftOut.called =>
        IF Len(driftA) = 0 \/ Len(driftA) # Len(driftB)
        THEN driftOut.maxAbs = 0 /\ driftOut.mae = FracZero
        ELSE LET n == Len(driftA)
                 sum == SeqSum(AbsDiffs)
             IN /\ \E k \in 1..n : driftOut.maxAbs = AbsDiffs[k]
                /\ \A k \in 1..n : AbsDiffs[k] <= driftOut.maxAbs
                /\ driftOut.mae.n * n = sum * driftOut.mae.d
                /\ driftOut.mae.n <= driftOut.maxAbs * driftOut.mae.d
                /\ driftOut.maxAbs <= sum
                /\ (driftA = driftB => driftOut.maxAbs = 0 /\ driftOut.mae = FracZero)

\* Two components that differ by different amounts, of opposite signs: the
\* mean lies strictly below the maximum.
C11_Witness ==
    /\ driftOut.called
    /\ driftA = <<0, 3>> /\ driftB = <<2, 0>>
    /\ driftOut.maxAbs = 3 /\ driftOut.mae = [n |-> 5, d |-> 2]

\* The uploads in the host's log, by position.
UploadsAt == {k \in 1..Len(hostLog) : hostLog[k].kind = "upload"}

\* No upload after position k wrote to the destination of the one at k.
NotReplaced(k) ==
    \A j \in UploadsAt :
        j > k /\ hostLog[j].hasFile /\ hostLog[j].resp.status # 400
              /\ hostLog[j].resp.error # "failed to create reports dir"
        => hostLog[j].dst # hostLog[k].dst

\* C12: a POST /upload with file bytes B and a non-empty name n that is
\* answered 200 carries saved = true, path = <public>/reports/n and public =
\* /reports/n, and as long as no other upload went to the same name a GET of
\* /reports/n is answered 200 with exactly B.
C12_UploadRoundTrip ==
    \A k \in UploadsAt :
        LET e == hostLog[k]
        IN e.name # <<>> /\ e.resp.status = 200 =>
              /\ e.resp.saved
              /\ e.resp.path = JoinUnclean(reportsDir, e.name)
              /\ e.resp.public = <<"reports">> \o e.name
              /\ NotReplaced(k) =>
                    Serve(hostFiles, <<"reports">> \o e.name) =
                        [NoResp EXCEPT !.status = 200, !.body = e.bytes]

\* C13, as claimed: a POST /upload without the `file` field is answered 400
\* and changes no file; a failure while saving is answered 500 with an error
\* message.
C13_MissingFileIs400 ==
    \A k \in UploadsAt :
        LET e == hostLog[k]
        IN /\ ~e.hasFile => e.resp.status = 400 /\ ~e.wrote
           /\ e.resp.status = 500 => e.resp.error # ""

\* C13, amended: the handler first ensures the reports directory, and
\* answers 500 "failed to create reports dir" when that fails, whether or
\* not the request has a `file` field; otherwise a request without the field
\* is answered 400. Either way such a request changes no file and is never
\* reported as saved. Every 500 carries an error message.
C13_MissingFileNeverStores ==
    \A k \in UploadsAt :
        LET e == hostLog[k]
        IN /\ ~e.hasFile =>
                 /\ ~e.wrote /\ ~e.resp.saved
                 /\ \/ e.resp.status = 400 /\ e.resp.error = "missing file field"
                    \/ e.resp.status = 500
                          /\ e.resp.error = "failed to create reports dir"
           /\ e.resp.status = 500 => e.resp.error # "" /\ ~e.resp.saved
           /\ e.resp.error = "failed to create reports dir" => ~e.wrote

\* A report is stored, then a request without a file is refused with 400.
C13_Witness ==
    /\ Len(hostLog) = 2
    /\ hostLog[1].resp.status = 200 /\ hostLog[1].wrote
    /\ ~hostLog[2].hasFile /\ hostLog[2].resp.status = 400
    /\ hostFiles = (hostLog[1].dst :> hostLog[1].bytes)

\* C14: an upload without a name is stored as <unix_epoch>_<client_filename>
\* under the reports directory, and two such uploads that were both answered
\* 200 are two distinct files, each with its own bytes.
C14_UnnamedNeverOverwrites ==
    /\ \A k \in UploadsAt :
          LET e == hostLog[k]
          IN e.name = <<>> /\ e.resp.status = 200 =>
                e.resp.path = reportsDir \o stampedName(e.at, e.client)
    /\ \A j, k \in UploadsAt :
          /\ j < k
          /\ hostLog[j].name = <<>> /\ hostLog[j].resp.status = 200
          /\ hostLog[k].name = <<>> /\ hostLog[k].resp.status = 200
          => /\ hostLog[j].dst # hostLog[k].dst
             /\ hostLog[j].dst \in DOMAIN hostFiles
             /\ hostFiles[hostLog[j].dst] = hostLog[j].bytes

\* The apps whose listener goroutine is launched or serving.
Listeners == {id \in 1..Len(apps) : apps[id].state \in {"launched", "listening"}}

\* The goroutines inside StartWeb or StopWeb, between Lock and Unlock.
InTransition ==
    {g \in Callers : gloc[g].op \in {"start", "stop"} /\ gpc[g] \notin {"idle", "lock"}}

AbsentAt(c) == SelectSeq(<<1, 2, 3, 4>>, LAMBDA k : k \notin c.present)

\* The GETs for the shards of the list q, in order.
GetsFor(q) == [j \in 1..Len(q) |-> GET(<<"mnist", mnistFiles[q[j]][1]>>)]

\* C16: a call of ensureLocalMNIST issues GETs only for shards absent when
\* it starts, at most one each, in the order of the four shard names (all of
\* them when it returns nil, those up to the failing one otherwise); a call
\* that finds all shards present changes no file; and a call that follows a
\* call that returned nil issues no request and changes no file.
C16_EnsureIdempotent ==
    \A k \in 1..Len(fcalls) :
        LET c == fcalls[k]
        IN /\ Len(c.gets) <= Len(AbsentAt(c))
           /\ c.gets = SubSeq(GetsFor(AbsentAt(c)), 1, Len(c.gets))
           /\ c.ok => Len(c.gets) = Len(AbsentAt(c))
           /\ AbsentAt(c) = <<>> => ~c.wrote
           /\ k > 1 /\ fcalls[k - 1].ok => c.gets = <<>> /\ ~c.wrote

\* Three shards were absent and fetched by a first call; the second call
\* found nothing to do.
C16_Witness ==
    /\ Len(fcalls) = 2
    /\ fcalls[1].present = {2} /\ fcalls[1].ok /\ Len(fcalls[1].gets) = 3
    /\ fcalls[2].ok /\ fcalls[2].gets = <<>> /\ ~fcalls[2].wrote

\* The local disk when the pipeline was invoked.
StartDisk == CHOOSE d \in InitialDisks : TRUE

\* The local paths the manifest's entries are downloaded to.
ManifestPaths ==
    {Join(modelDirLocal, manifest[k].filename) :
       k \in {j \in 1..Len(manifest) : manifest[j].filename # <<>>}}

DigitsOf(q) == {q[k].digit : k \in 1..Len(q)}

\* The sum of the mae values of the first n drift entries of q.
RECURSIVE SumMAE(_, _)
SumMAE(q, n) == IF n = 0 THEN FracZero ELSE FracAdd(SumMAE(q, n - 1), q[n].mae)

\* C18: in every run, the digits probed are exactly those of the
\* SampleIndex, in each of cpu, gpu, drift and per_sample, so a digit
\* without a sample appears in none of them and |cpu| < 10 when one is
\* missing; the accuracies and avg_drift_mae are divided by the number of
\* probed samples; and a run over a dataset without digit 0 still completes
\* (the warm-up is skipped).
C18_MissingDigitSkipped ==
    \A k \in 1..Len(per) :
        LET m == per[k]
            N == Len(m.cpu)
        IN /\ DigitsOf(m.cpu) = DOMAIN firstIdx
           /\ DigitsOf(m.gpu) = DOMAIN firstIdx
           /\ DigitsOf(m.drift) = DOMAIN firstIdx
           /\ DigitsOf(m.adhd10.per_sample) = DOMAIN firstIdx
           /\ N = Cardinality(DOMAIN firstIdx)
           /\ (DOMAIN firstIdx # Digits => N < MaxDigit + 1)
           /\ N >= 1 =>
                 /\ m.adhd10.top1_accuracy_cpu = Frac(m.adhd10.buckets.cpu_correct, N)
                 /\ m.adhd10.top1_accuracy_gpu = Frac(m.adhd10.buckets.gpu_correct, N)
                 /\ m.adhd10.avg_drift_mae =
                       Frac(SumMAE(m.drift, N).n, SumMAE(m.drift, N).d * N)

\* A GPU run over a dataset without digit 0: nine samples, with drift.
C18_MissingZeroWitness ==
    \E k \in 1..Len(per) :
        /\ 0 \notin DOMAIN firstIdx
        /\ per[k].webgpu_init_ok
        /\ Len(per[k].cpu) = 9
        /\ per[k].adhd10.avg_drift_mae # FracZero

\* The stages in the order the code runs them, and in the order claimed.
CodeRank ==
    [x \in {"fetch_manifest", "download_model", "probe_system", "ensure_mnist",
            "load_dataset", "run_model", "write_local", "upload"} |->
       CASE x = "fetch_manifest" -> 1 [] x = "download_model" -> 2
         [] x = "probe_system" -> 3 [] x = "ensure_mnist" -> 4
         [] x = "load_dataset" -> 5 [] x = "run_model" -> 6
         [] x = "write_local" -> 7 [] x = "upload" -> 8]
ClaimedRank == [CodeRank EXCEPT !["probe_system"] = 0]

\* The stages of the trace never step back in rank.
InOrder(rank) ==
    \A i \in 1..(Len(trace) - 1) : rank[trace[i]] <= rank[trace[i + 1]]

Times(stage) == Cardinality({i \in 1..Len(trace) : trace[i] = stage})

\* C19, as claimed: the system probe comes first, then manifest fetch and
\* model downloads, the MNIST shards, the dataset load, the model runs, the
\* local write and last the upload.
C19_ProbeFirst ==
    /\ InOrder(ClaimedRank)
    /\ trace # <<>> => trace[1] = "probe_system"

\* C19, amended: manifest fetch, model downloads, then the system probe,
\* then the MNIST shards, the dataset load, the model runs, the local write
\* and last the upload; every stage but the downloads and the runs happens
\* at most once, and a completed invocation ends with the upload's POST.
C19_ProbeAfterDownloads ==
    /\ InOrder(CodeRank)
    /\ \A x \in (DOMAIN CodeRank) \ {"download_model", "run_model"} : Times(x) <= 1
    /\ Times("probe_system") = Times("ensure_mnist")
    /\ Times("download_model") = Len(ModelGets)
    /\ Times("run_model") = Len(engineLog)
    /\ Times("load_dataset") = 0 => images = <<>> /\ engineLog = <<>>
    /\ Times("write_local") = 0 => Posts = {} /\ ReportsUntouched
    /\ pc = "done" =>
          /\ trace[Len(trace)] = "upload"
          /\ httpLog[Len(httpLog)].method = "POST"
          /\ Times("probe_system") = 1 /\ Times("load_dataset") = 1

\* A completed invocation over two models.
C19_Witness ==
    /\ pc = "done"
    /\ trace = <<"fetch_manifest", "download_model", "download_model",
                 "probe_system", "ensure_mnist", "load_dataset",
                 "run_model", "run_model", "write_local", "upload">>

\* The number of per_sample entries of score s whose field f is one of vals.
CountLabel(s, f, vals) ==
    Cardinality({i \in 1..Len(s.per_sample) : s.per_sample[i][f] \in vals})

\* The roll-up counters of score s against its own per-sample labels.
RollupAgrees(s) ==
    LET b == s.buckets
    IN /\ \A i \in 1..Len(s.per_sample) :
             LET e == s.per_sample[i]
             IN /\ (e.cpu_bucket = "correct") = (e.cpu_pred = e.digit)
                /\ (e.cpu_bucket = "off_by_1") = (Abs(e.cpu_pred - e.digit) = 1)
                /\ (e.cpu_bucket = "wrong") = (Abs(e.cpu_pred - e.digit) > 1)
                /\ (e.gpu_bucket = "correct") = (e.gpu_pred = e.digit)
                /\ (e.gpu_bucket = "off_by_1") = (Abs(e.gpu_pred - e.digit) = 1)
                /\ (e.gpu_bucket = "wrong") = (Abs(e.gpu_pred - e.digit) > 1)
                /\ (e.agreement = "disagree") = (e.cpu_pred # e.gpu_pred)
                /\ (e.agreement = "agree") = (e.cpu_pred = e.gpu_pred)
       /\ b.cpu_correct = CountLabel(s, "cpu_bucket", {"correct"})
       /\ b.cpu_off_by_1 = CountLabel(s, "cpu_bucket", {"off_by_1"})
       /\ b.cpu_wrong = CountLabel(s, "cpu_bucket", {"off_by_1", "wrong"})
       /\ b.cpu_off_by_1 <= b.cpu_wrong
       /\ b.gpu_correct = CountLabel(s, "gpu_bucket", {"correct"})
       /\ b.gpu_off_by_1 = CountLabel(s, "gpu_bucket", {"off_by_1"})
       /\ b.gpu_wrong = CountLabel(s, "gpu_bucket", {"off_by_1", "wrong"})
       /\ b.gpu_off_by_1 <= b.gpu_wrong
       /\ b.disagree = CountLabel(s, "agreement", {"disagree"})
       /\ b.agree = CountLabel(s, "agreement", {"agree"})

\* C23: in every score computeADHD10 produced, the per-sample labels follow
\* the labelling rules (correct iff pred = truth, off_by_1 iff the two differ
\* by one, wrong otherwise; disagree iff cpu_pred # gpu_pred) and the roll-up
\* counters count them: *_correct the correct entries, *_off_by_1 the
\* off_by_1 entries, *_wrong the off_by_1 and wrong entries together, so
\* *_off_by_1 <= *_wrong, for the CPU and for the GPU.
C23_RollupMatchesLabels == \A k \in 1..Len(per) : RollupAgrees(per[k].adhd10)

\* A score whose CPU labels are all three kinds and whose predictions
\* disagree somewhere.
C23_Witness ==
    \E k \in 1..Len(per) :
        LET s == per[k].adhd10
        IN /\ CountLabel(s, "cpu_bucket", {"correct"}) > 0
           /\ CountLabel(s, "cpu_bucket", {"off_by_1"}) > 0
           /\ CountLabel(s, "cpu_bucket", {"wrong"}) > 0
           /\ CountLabel(s, "agreement", {"disagree"}) > 0

\* loadMNISTData has returned without error.
DatasetLoaded == "load_dataset" \in Range(trace) /\ err # "load mnist"

\* C30: once the dataset has loaded without error, every index stored in
\* the SampleIndex is a valid index into the loaded images
\* (0 <= idx < |images|), so neither the warm-up nor a per-digit probe
\* indexes out of range.
C30_SampleIndexInRange ==
    DatasetLoaded =>
        /\ \A d \in DOMAIN firstIdx : 0 <= firstIdx[d] /\ firstIdx[d] < Len(images)
        /\ ~(pc = "panic" /\ cur.gpuInitOK /\ ~cur.deferCleanup)
        /\ ~cur.times.panic

\* Path p is a file within directory dir.
Within(dir, p) == Len(p) > Len(dir) /\ SubSeq(p, 1, Len(dir)) = dir

\* C29: every accepted upload is stored inside the reports directory: the
\* destination the handler writes to is a file within <public>/reports
\* whatever the `name` field holds, and no file outside that directory is
\* created or overwritten.
C29_UploadsStayInReports ==
    /\ \A k \in UploadsAt :
          hostLog[k].resp.status = 200 \/ hostLog[k].wrote
             => Within(reportsDir, hostLog[k].dst)
    /\ \A p \in DOMAIN hostFiles : Within(reportsDir, p)

\* C28: StartWeb does not return nil for a server whose listener failed to
\* bind, and a WebStatus that is about to read the record finds
\* running = true only while the listener of the recorded app has not
\* failed to bind.
C28_RunningMeansListening ==
    \A g \in Callers :
        /\ gpc[g] = "unlock" /\ gloc[g].op = "start" /\ gloc[g].res = "nil" =>
              apps[gloc[g].app].state # "failed"
        /\ gpc[g] = "read" /\ ws.running /\ ws.app # 0 =>
              apps[ws.app].state # "failed"

\* What the target path holds (absent: the empty function).
TargetOf(files) == [x \in (DOMAIN files) \cap {localPath} |-> files[x]]

\* C22: the report is written by write-temp-then-rename. At every point of
\* the save the target path holds what it held before (nothing, or its
\* previous content) or the complete serialized report, never a partial
\* one; until the rename it is unchanged; when the encoder fails, or
\* anything else before the rename, the target is left unchanged; and every
\* upload is issued after the rename and carries the complete report.
C22_TargetNeverPartial ==
    /\ TargetOf(wfiles) \in {TargetOf(wstart), localPath :> File(wbody, TRUE)}
    /\ wpc \in {"mkdir", "encode", "rename", "encode failed", "failed"} =>
          TargetOf(wfiles) = TargetOf(wstart) /\ wsent = <<>>
    /\ \A k \in 1..Len(wsent) :
          /\ wpc \in {"done", "push failed"}
          /\ wsent[k] = POST(uploadURL, reportName, File(wbody, TRUE))
          /\ wfiles[localPath] = File(wbody, TRUE)

\* The encoder failed part-way while the target held an older report: the
\* partial bytes are in the temporary file, the target is as it was.
C22_Witness ==
    /\ wpc = "encode failed"
    /\ wfiles[tmpPath] = File(wbody, FALSE)
    /\ localPath \in DOMAIN wstart /\ wstart[localPath].body # wbody
    /\ wfiles[localPath] = wstart[localPath]

\* The positions (0-based) of the rows of labels that are the one-hot row
\* of class d.
PositionsOf(labels, d) == {i \in 0..(Len(labels) - 1) : labels[i + 1] = labelToOneHot(d)}

\* C24: for any sequence of one-hot labels, firstIndexPerDigit returns a map
\* whose keys are exactly the digit classes that occur in the labels and
\* whose value for digit d is the smallest index i with labels[i] = d; it
\* holds all 10 keys whenever every digit 0..9 occurs.
C24_FirstIndexPerDigit ==
    idxOut.called =>
        /\ DOMAIN idxOut.m = {d \in Digits : PositionsOf(idxLabels, d) # {}}
        /\ \A d \in DOMAIN idxOut.m :
              /\ idxOut.m[d] \in PositionsOf(idxLabels, d)
              /\ \A i \in PositionsOf(idxLabels, d) : idxOut.m[d] <= i
        /\ (\A d \in Digits : PositionsOf(idxLabels, d) # {}) =>
              DOMAIN idxOut.m = Digits

\* A complete dataset in which digits repeat before the last class shows up.
C24_Witness ==
    /\ idxOut.called
    /\ DOMAIN idxOut.m = Digits
    /\ Len(idxLabels) = 18
    /\ idxOut.m[1] = 3 /\ idxOut.m[8] = 17
    /\ Cardinality(PositionsOf(idxLabels, 1)) = 4

\* The number of cells the header of shard file f (an image shard or a
\* label shard) implies, and whether f is shorter than that.
ImpliedLen(f, img) ==
    IF img THEN ImgHeader + readHeader(f, ImgHeader)[2] * readHeader(f, ImgHeader)[3]
                                                        * readHeader(f, ImgHeader)[4]
    ELSE LblHeader + readHeader(f, LblHeader)[2]
ShortShard(f, img) ==
    Len(f) < (IF img THEN ImgHeader ELSE LblHeader) \/ Len(f) < ImpliedLen(f, img)

\* The images and labels a whole shard holds.
WholeImages(f) ==
    [i \in 1..f[2] |->
        imageOf(SubSeq(f, ImgHeader + (i - 1) * f[3] * f[4] + 1, ImgHeader + i * f[3] * f[4]),
                f[3], f[4])]
WholeLabels(f) == [i \in 1..f[2] |-> labelToOneHot(f[LblHeader + i])]

\* C25: loadMNISTData returns an error whenever a shard is missing or
\* shorter than its header implies (an image file of fewer than 16 + N*R*C
\* bytes, a label file of fewer than 8 + N bytes, a file that ends inside
\* its last record included), and when it returns successfully every pixel
\* and label was read from the files: images and labels are those of the
\* train shard followed by those of the t10k shard.
C25_LoaderRejectsShortShards ==
    ldOut.called =>
        /\ (\E k \in 1..4 : k \notin DOMAIN ldFiles \/ ShortShard(ldFiles[k], k \in {1, 3}))
              => ldOut.kind = "err"
        /\ ldOut.kind = "ok" =>
              /\ ldOut.images = WholeImages(ldFiles[1]) \o WholeImages(ldFiles[3])
              /\ ldOut.labels = WholeLabels(ldFiles[2]) \o WholeLabels(ldFiles[4])

\* C21: after a pipeline invocation that completed successfully, whatever
\* earlier invocations against the same host left behind, every fetched
\* artifact on disk holds the complete content the host serves: each model
\* file and each of the four MNIST shards.
C21_RerunOverwritesPartials ==
    (rruns # <<>> /\ rruns[Len(rruns)] = "ok") =>
        /\ \A j \in 1..Len(HostModels) :
              ModelPath(j) \in DOMAIN rmodels /\ rmodels[ModelPath(j)] = "served"
        /\ \A k \in 1..4 :
              ShardPath(k) \in DOMAIN rshards /\ rshards[ShardPath(k)] = ServedShards[k]

\* C26: the score computeADHD of the web variant returns for aligned CPU and
\* GPU sample lists satisfies the bucket invariants of the native one:
\* CPUCorrect + CPUWrong = |PerSample|, GPUCorrect + GPUWrong = |PerSample|,
\* Agree + Disagree = |PerSample|, a sample that is off by one being counted
\* in the off-by-1 counter and in the wrong counter.
C26_WebBucketSums ==
    wadOut.called =>
        LET s == wadOut.score
            b == s.buckets
            N == Len(s.per_sample)
        IN /\ N = Len(wadCPU)
           /\ b.cpu_correct + b.cpu_wrong = N
           /\ b.gpu_correct + b.gpu_wrong = N
           /\ b.agree + b.disagree = N
           /\ b.cpu_off_by_1 <= b.cpu_wrong
           /\ b.gpu_off_by_1 <= b.gpu_wrong

\* C27: in benchmarkModelsOnDigits with the GPU enabled the context
\* initialised for one model is cleaned up before the context of the next
\* model is initialised: at most one GPU context is active at any time.
C27_OneGPUContext == Cardinality(bactive) <= 1

====
